---- MODULE Spec2Model ----
(***************************************************************************)
(* llmify: the root command (main.go), its crawler (CrawlProject,          *)
(* LoadIgnoreMatcher), the tree renderer (tree.go), the binary classifier  *)
(* (IsLikelyTextFile) and the pattern matcher of package ignore            *)
(* (IgnoreMatcher.ShouldIgnore).                                           *)
(*                                                                         *)
(* Paths, patterns and names are strings; TLC's Len, SubSeq, Head, Tail    *)
(* and \o act on them character by character.  File contents are byte      *)
(* sequences (0..255).                                                     *)
(***************************************************************************)
EXTENDS Integers, Sequences, FiniteSets, TLC

\* ------------------------------------------------------------------ bounds
\* Runs of the root command over the same directory.
MaxRuns == 2
\* --max-depth ranges over 0..MaxDepthOpt.
MaxDepthOpt == 2
\* How many command-line options may differ from their defaults in one run.
MaxDeviations == 2
\* How many patterns an IgnoreMatcher is given.
MaxPatterns == 2
\* The longest content LimitString is given, in bytes.
MaxContentLen == 6
\* The largest maxLen LimitString is given.
MaxLimit == 4
\* How many edits ApplyEdits is given.
MaxEdits == 2

\* ----------------------------------------------------------------- strings
\* s[i-1:i], and "" outside s.
Char(s, i) == IF i >= 1 /\ i <= Len(s) THEN SubSeq(s, i, i) ELSE ""

Min(S) == CHOOSE m \in S : \A n \in S : m <= n

HasPrefix(s, p) == Len(p) <= Len(s) /\ SubSeq(s, 1, Len(p)) = p

HasSuffix(s, p) == Len(p) <= Len(s) /\ SubSeq(s, Len(s) - Len(p) + 1, Len(s)) = p

\* strings.Contains(s, c) for a one-character c.
ContainsChar(s, c) == \E i \in 1..Len(s) : Char(s, i) = c

\* strings.Split(s, sep) for a one-character separator, from position i on.
RECURSIVE SplitFrom(_, _, _)
SplitFrom(s, sep, i) ==
    LET nxt == {j \in i..Len(s) : Char(s, j) = sep}
    IN  IF nxt = {} THEN <<SubSeq(s, i, Len(s))>>
        ELSE <<SubSeq(s, i, Min(nxt) - 1)>> \o SplitFrom(s, sep, Min(nxt) + 1)

Split(s, sep) == SplitFrom(s, sep, 1)

\* strings.Join(parts[i:], "/").
RECURSIVE JoinFrom(_, _)
JoinFrom(parts, i) ==
    IF i > Len(parts) THEN ""
    ELSE IF i = Len(parts) THEN parts[i]
    ELSE parts[i] \o "/" \o JoinFrom(parts, i + 1)

\* strings.Trim(line, " ").
RECURSIVE TrimSpaces(_)
TrimSpaces(s) ==
    IF s = "" THEN s
    ELSE IF Char(s, 1) = " " THEN TrimSpaces(Tail(s))
    ELSE IF Char(s, Len(s)) = " " THEN TrimSpaces(SubSeq(s, 1, Len(s) - 1))
    ELSE s

\* The characters of the model's names and patterns, in groups of consecutive
\* ASCII codes, and the code before each group.
Lower == "abcdefghijklmnopqrstuvwxyz"
Upper == "ABCDEFGHIJKLMNOPQRSTUVWXYZ"
Digits == "0123456789"
PunctA == " !"
PunctB == "#$%&'()*+,-./"
PunctC == ":;<=>?@"
PunctD == "]^_"

IndexIn(str, c) == CHOOSE i \in 1..Len(str) : Char(str, i) = c

CharsOf(str) == {Char(str, i) : i \in 1..Len(str)}

\* The byte of a character.
ByteTable ==
    [c \in CharsOf(Lower) |-> 96 + IndexIn(Lower, c)] @@
    [c \in CharsOf(Upper) |-> 64 + IndexIn(Upper, c)] @@
    [c \in CharsOf(Digits) |-> 47 + IndexIn(Digits, c)] @@
    [c \in CharsOf(PunctA) |-> 31 + IndexIn(PunctA, c)] @@
    [c \in CharsOf(PunctB) |-> 34 + IndexIn(PunctB, c)] @@
    [c \in CharsOf(PunctC) |-> 57 + IndexIn(PunctC, c)] @@
    [c \in CharsOf(PunctD) |-> 92 + IndexIn(PunctD, c)] @@
    [c \in {"["} |-> 91] @@
    [c \in {"~"} |-> 126] @@
    [c \in {"\n"} |-> 10]

ByteOf(c) == ByteTable[c]

\* The character of a byte of the table.
TextBytes == {ByteTable[c] : c \in DOMAIN ByteTable}

CharTable == [b \in TextBytes |-> CHOOSE c \in DOMAIN ByteTable : ByteTable[c] = b]

CharOf(b) == CharTable[b]

\* []byte(s)
Bytes(s) == [i \in 1..Len(s) |-> ByteOf(Char(s, i))]

\* string(b), for bytes of the table.
RECURSIVE StringFrom(_, _, _)
StringFrom(b, lo, hi) ==
    IF lo > hi THEN ""
    ELSE IF lo = hi THEN CharOf(b[lo])
    ELSE StringFrom(b, lo, (lo + hi) \div 2) \o StringFrom(b, (lo + hi) \div 2 + 1, hi)

StringOf(b) == StringFrom(b, 1, Len(b))

\* a < b as Go compares strings: byte by byte.
StrLess(a, b) ==
    LET m == IF Len(a) < Len(b) THEN Len(a) ELSE Len(b)
        diff == {i \in 1..m : Char(a, i) # Char(b, i)}
    IN  IF diff = {} THEN Len(a) < Len(b)
        ELSE ByteOf(Char(a, Min(diff))) < ByteOf(Char(b, Min(diff)))

\* strings.ToLower, on ASCII.
LowerChar(c) == IF c \in CharsOf(Upper) THEN Char(Lower, IndexIn(Upper, c)) ELSE c

RECURSIVE ToLower(_)
ToLower(s) == IF s = "" THEN "" ELSE LowerChar(Char(s, 1)) \o ToLower(Tail(s))

\* ------------------------------------------------------------------- paths
\* Position of the last "/" of s, 0 when there is none.
LastSlash(s) ==
    LET at == {i \in 1..Len(s) : Char(s, i) = "/"}
    IN  IF at = {} THEN 0 ELSE CHOOSE i \in at : \A j \in at : j <= i

\* filepath.Base, for a cleaned path.
Base(p) ==
    IF p = "" THEN "."
    ELSE IF p = "/" THEN "/"
    ELSE SubSeq(p, LastSlash(p) + 1, Len(p))

\* filepath.Dir, for a cleaned path.
Dir(p) ==
    LET k == LastSlash(p)
    IN  IF k = 0 THEN "." ELSE IF k = 1 THEN "/" ELSE SubSeq(p, 1, k - 1)

\* filepath.Ext: the suffix of the last element from its last dot on.
Ext(p) ==
    LET b == SubSeq(p, LastSlash(p) + 1, Len(p))
        dots == {i \in 1..Len(b) : Char(b, i) = "."}
    IN  IF dots = {} THEN ""
        ELSE SubSeq(b, CHOOSE i \in dots : \A j \in dots : j <= i, Len(b))

\* filepath.IsAbs
IsAbs(p) == HasPrefix(p, "/")

\* filepath.Join(a, b) for a cleaned absolute a and a cleaned b without
\* ".." elements: a leading "/" of b is not kept as a root.
Join(a, b) ==
    LET rel == IF HasPrefix(b, "/") THEN Tail(b) ELSE b
    IN  IF rel = "" \/ rel = "." THEN a
        ELSE IF a = "/" THEN "/" \o rel
        ELSE a \o "/" \o rel

\* filepath.Rel(base, target) for a target at or below base.
Rel(base, target) ==
    IF target = base THEN "."
    ELSE IF base = "/" THEN Tail(target)
    ELSE SubSeq(target, Len(base) + 2, Len(target))

\* The proper ancestors of an absolute path, "/" included.
RECURSIVE Ancestors(_)
Ancestors(p) == IF p = "/" THEN {} ELSE {Dir(p)} \union Ancestors(Dir(p))

\* --------------------------------------------------------- BinaryClassifier
DefaultBinaryExtensions ==
    {".png", ".jpg", ".jpeg", ".gif", ".bmp", ".tiff", ".ico", ".pdf",
     ".mp3", ".wav", ".ogg", ".flac", ".mp4", ".avi", ".mov", ".mkv",
     ".zip", ".gz", ".tar", ".rar", ".7z",
     ".exe", ".dll", ".so", ".dylib", ".app", ".o", ".a", ".obj",
     ".class", ".jar", ".pyc", ".pyo", ".sqlite", ".db",
     ".woff", ".woff2", ".ttf", ".otf", ".eot", ".DS_Store"}

IsCont(b, i, lo, hi) == i <= Len(b) /\ b[i] >= lo /\ b[i] <= hi

\* utf8.Valid(b[i:]): the encodings of RFC 3629, shortest form only.  A run
\* of ASCII bytes is passed over in one step.
RECURSIVE Utf8ValidFrom(_, _)
Utf8ValidFrom(b, i) ==
    IF i > Len(b) THEN TRUE
    ELSE LET c == b[i]
         IN  IF c < 128
             THEN LET high == {j \in i..Len(b) : b[j] >= 128}
                  IN  high = {} \/ Utf8ValidFrom(b, Min(high))
             ELSE IF c >= 194 /\ c <= 223
                  THEN IsCont(b, i + 1, 128, 191) /\ Utf8ValidFrom(b, i + 2)
             ELSE IF c >= 224 /\ c <= 239
                  THEN /\ IsCont(b, i + 1, IF c = 224 THEN 160 ELSE 128,
                                           IF c = 237 THEN 159 ELSE 191)
                       /\ IsCont(b, i + 2, 128, 191)
                       /\ Utf8ValidFrom(b, i + 3)
             ELSE IF c >= 240 /\ c <= 244
                  THEN /\ IsCont(b, i + 1, IF c = 240 THEN 144 ELSE 128,
                                           IF c = 244 THEN 143 ELSE 191)
                       /\ IsCont(b, i + 2, 128, 191)
                       /\ IsCont(b, i + 3, 128, 191)
                       /\ Utf8ValidFrom(b, i + 4)
             ELSE FALSE

Utf8Valid(b) == (\A i \in 1..Len(b) : b[i] < 128) \/ Utf8ValidFrom(b, 1)

\* The read buffer of IsLikelyTextFile.
ChunkSize == 4096

\* More NUL bytes than this in the chunk make the file binary.
MaxNulBytes == 2

\* A classifier that trusts the extension alone and never reads the file.
TextByExtension(path, data) == ToLower(Ext(path)) \notin DefaultBinaryExtensions

\* IsLikelyTextFile(path) for a file that opens and reads, with content data:
\* the isText result.
IsLikelyTextFile(path, data) ==
    IF ToLower(Ext(path)) \in DefaultBinaryExtensions THEN FALSE
    ELSE LET n == IF Len(data) < ChunkSize THEN Len(data) ELSE ChunkSize
             chunk == SubSeq(data, 1, n)
         IN  IF n = 0 THEN TRUE
             ELSE IF ~Utf8Valid(chunk) THEN FALSE
             ELSE IF Cardinality({i \in 1..n : chunk[i] = 0}) > MaxNulBytes THEN FALSE
             ELSE TRUE

\* ReadFileContent: the bytes of the returned string, UTF-8 as is and anything
\* else read as Latin-1 (each byte becomes the rune of that value).
RECURSIVE Latin1(_)
Latin1(b) ==
    IF b = <<>> THEN <<>>
    ELSE (IF Head(b) < 128 THEN <<Head(b)>>
          ELSE <<192 + (Head(b) \div 64), 128 + (Head(b) % 64)>>) \o Latin1(Tail(b))

ReadFileContent(data) == IF Utf8Valid(data) THEN data ELSE Latin1(data)

\* ------------------------------------------------------------------ globs
\* Shell-glob matching of s against pat: "*" is any run of non-separator
\* characters; "?" is any one non-separator character when qmark holds and a
\* literal "?" otherwise.  Character classes and escapes are not among the
\* model's patterns.
RECURSIVE GlobMatch(_, _, _)
GlobMatch(pat, s, qmark) ==
    IF pat = "" THEN s = ""
    ELSE IF Char(pat, 1) = "*"
         THEN IF ~ContainsChar(pat, "?") /\ ~ContainsChar(Tail(pat), "*")
              THEN \* the rest is literal: the star takes all but the end of s
                   /\ HasSuffix(s, Tail(pat))
                   /\ ~ContainsChar(SubSeq(s, 1, Len(s) - Len(pat) + 1), "/")
              ELSE \E k \in 0..Len(s) :
                       /\ ~ContainsChar(SubSeq(s, 1, k), "/")
                       /\ GlobMatch(Tail(pat), SubSeq(s, k + 1, Len(s)), qmark)
    ELSE IF qmark /\ Char(pat, 1) = "?"
         THEN s # "" /\ Char(s, 1) # "/" /\ GlobMatch(Tail(pat), Tail(s), qmark)
    ELSE s # "" /\ Char(s, 1) = Char(pat, 1) /\ GlobMatch(Tail(pat), Tail(s), qmark)

\* filepath.Match(pattern, name), the error result dropped.
FilepathMatch(pattern, name) ==
    IF ContainsChar(pattern, "*") \/ ContainsChar(pattern, "?")
    THEN GlobMatch(pattern, name, TRUE)
    ELSE pattern = name

\* ------------------------------------------------- package ignore (matcher)
\* matchPattern(path, pattern)
matchPattern(path, pattern) ==
    IF path = pattern THEN TRUE
    ELSE IF FilepathMatch(pattern, path) THEN TRUE
    ELSE IF HasSuffix(pattern, "/**")
         THEN LET prefix == SubSeq(pattern, 1, Len(pattern) - 3)
              IN  HasPrefix(path, prefix \o "/") \/ path = prefix
    ELSE IF HasPrefix(pattern, "**/*.")
         THEN HasSuffix(path, SubSeq(pattern, 5, Len(pattern)))
    ELSE IF ~ContainsChar(pattern, "/") THEN Base(path) = pattern
    ELSE FALSE

\* The loop body without the case for patterns that end in "/".
ShouldIgnoreStepNoDirCase(path, pattern) ==
    IF HasPrefix(pattern, "!")
    THEN IF matchPattern(path, Tail(pattern)) THEN "keep" ELSE "next"
    ELSE IF \E i \in 1..Len(Split(path, "/")) :
                matchPattern(JoinFrom(Split(path, "/"), i), pattern)
         THEN "ignore" ELSE "next"

\* One iteration of the loop of ShouldIgnore over pattern: "ignore" and "keep"
\* are its two returns, "next" goes on to the following pattern.
ShouldIgnoreStep(path, pattern) ==
    IF HasPrefix(pattern, "!")
    THEN IF matchPattern(path, Tail(pattern)) THEN "keep" ELSE "next"
    ELSE IF HasSuffix(pattern, "/")
         THEN LET dirPattern == SubSeq(pattern, 1, Len(pattern) - 1)
              IN  IF path = dirPattern \/ HasPrefix(path, dirPattern \o "/")
                  THEN "ignore" ELSE "next"
    ELSE IF matchPattern(path, pattern) THEN "ignore"
    ELSE LET pathParts == Split(path, "/")
         IN  IF \E i \in 1..Len(pathParts) : matchPattern(JoinFrom(pathParts, i), pattern)
             THEN "ignore" ELSE "next"

\* The loop of ShouldIgnore over the patterns lo..hi, in order: the outcome
\* of the first pattern that returns, "next" when none does.  The range is
\* taken by halves.
RECURSIVE ShouldIgnoreFrom(_, _, _, _)
ShouldIgnoreFrom(patterns, path, lo, hi) ==
    IF lo > hi THEN "next"
    ELSE IF lo = hi THEN ShouldIgnoreStep(path, patterns[lo])
    ELSE LET first == ShouldIgnoreFrom(patterns, path, lo, (lo + hi) \div 2)
         IN  IF first # "next" THEN first
             ELSE ShouldIgnoreFrom(patterns, path, (lo + hi) \div 2 + 1, hi)

\* IgnoreMatcher.ShouldIgnore(path) with m.patterns = patterns.
ShouldIgnore(patterns, path) == ShouldIgnoreFrom(patterns, path, 1, Len(patterns)) = "ignore"

\* -------------------------------------- go-gitignore (the compiled matcher)
\* CrawlProject and LoadIgnoreMatcher match through
\* github.com/sabhiram/go-gitignore.  A line compiles to a regular expression
\*     ^(|.*/)BODY(|/.*)$      or, for a line ending in "/",   ^(|.*/)BODY(|.*)$
\* with "^(|/)" in place of "^(|.*/)" for a line starting with "/", and each
\* "*" of the body standing for [^/]*.  The model keeps the compiled form as
\* a record: the body split at "/" into globs, and the flags.  Lines with
\* "**" elsewhere than in a leading "**/", with "\" or with "\r" are not
\* among the model's patterns.

\* The prefix rule of the library: a line with "x/" followed somewhere by
\* "*." (x neither "/" nor "+") is anchored to the root.
HasFolderGlob(line) ==
    \E i \in 1..Len(line) :
        /\ Char(line, i) \notin {"/", "+"}
        /\ Char(line, i + 1) = "/"
        /\ \E j \in (i + 2)..Len(line) : Char(line, j) = "*" /\ Char(line, j + 1) = "."

\* The steps of getPatternFromLine on a trimmed line, in the order of the
\* code: the escapes "\#" and "\!" are not among the model's patterns, so a
\* leading "#" or "!" that is left stands for itself and is dropped as the
\* code drops its backslash.
Unescaped(l) == IF HasPrefix(l, "#") \/ HasPrefix(l, "!") THEN Tail(l) ELSE l

FolderGlobAnchored(l) == IF HasFolderGlob(l) /\ ~HasPrefix(l, "/") THEN "/" \o l ELSE l

LeadingStarsDropped(l) ==
    IF HasPrefix(l, "/**/") THEN (IF HasPrefix(Tail(l), "**/") THEN SubSeq(l, 5, Len(l)) ELSE Tail(l))
    ELSE IF HasPrefix(l, "**/") THEN SubSeq(l, 4, Len(l))
    ELSE l

\* The body of a line between its leading and its trailing "/".
BodyOf(l) ==
    SubSeq(l, IF HasPrefix(l, "/") THEN 2 ELSE 1,
              IF HasSuffix(l, "/") /\ Len(l) > 1 THEN Len(l) - 1 ELSE Len(l))

CompiledPattern(negate, anchored, dirOnly, segs) ==
    [ok |-> TRUE, negate |-> negate, anchored |-> anchored, dirOnly |-> dirOnly,
     segs |-> segs, stars |-> [j \in 1..Len(segs) |-> ContainsChar(segs[j], "*")]]

CompiledBody(negate, l) ==
    CompiledPattern(negate, HasPrefix(l, "/"), HasSuffix(l, "/"), Split(BodyOf(l), "/"))

CompiledTrimmed(negate, l) ==
    CompiledBody(negate, LeadingStarsDropped(FolderGlobAnchored(Unescaped(l))))

\* getPatternFromLine(line): ok is FALSE for a line that compiles to nothing
\* (a comment, a blank line).
getPatternFromLine(rawLine) ==
    IF HasPrefix(rawLine, "#") \/ TrimSpaces(rawLine) = "" THEN [ok |-> FALSE]
    ELSE IF HasPrefix(TrimSpaces(rawLine), "!")
         THEN CompiledTrimmed(TRUE, Tail(TrimSpaces(rawLine)))
    ELSE CompiledTrimmed(FALSE, TrimSpaces(rawLine))

\* The lines CreateDefaultLLMIgnoreFile writes.
DefaultLLMIgnoreLines ==
    <<"# Default .llmignore created by llmify",
      "# Add or remove patterns as needed", "",
      "# Package lock files (large, machine-generated)", "package-lock.json",
      "yarn.lock", "pnpm-lock.yaml", "composer.lock", "Cargo.lock",
      "Gemfile.lock", "go.sum", "", "# Build output and artifacts", "dist/",
      "build/", "coverage/", "*.min.js", "*.min.css", "",
      "# Large data files", "*.csv", "*.xlsx", "*.parquet", "*.sql", "*.db",
      "*.sqlite", "", "# Images and media (binary content)", "*.jpg",
      "*.jpeg", "*.png", "*.gif", "*.ico", "*.svg", "*.webp", "",
      "# Generated or compiled content", "**/*.map", "**/__pycache__/",
      "**/.pytest_cache/", "**/.next/", "**/.nuxt/", "",
      "# Machine-specific configuration", ".DS_Store", "Thumbs.db",
      ".env.local", ".idea/", ".vscode/", "*.swp", "*.swo", ".turbo/",
      ".cache/", ".parcel-cache/", ".rollup.cache/", ".webpack/",
      ".eslintcache", ".stylelintcache", ".tsbuildinfo", "",
      "# Package manager directories", "node_modules/", "bower_components/",
      "jspm_packages/", ".pnpm-store/", "", "# Test coverage and reports",
      "coverage/", ".nyc_output/", "test-results/", "cypress/videos/",
      "cypress/screenshots/", "reports/", "", "# Temporary and log files",
      "*.log", "*.tmp", "*.temp", "tmp/", "temp/", "logs/", "",
      "# IDE and editor files", ".history/", ".settings/",
      "*.sublime-workspace", "*.sublime-project", ".project", ".classpath",
      "*.iml", ".factorypath", "", "# Build system files", ".gradle/",
      "target/", "out/", "bin/", "obj/", "", "# Documentation builds",
      "docs/_build/", "_site/", ".docusaurus/", ".vuepress/dist/", "",
      "# Misc generated files", ".vercel/", ".netlify/", "storybook-static/",
      "public/sitemap*.xml", "public/robots.txt", "public/feed.xml",
      ".next/">>

\* The patterns LoadIgnoreMatcher appends after the lines of the files.
BuiltinPatterns ==
    <<".git/", "__pycache__/", "node_modules/", "vendor/", "build/", "dist/",
      "target/", "*.pyc", "*.pyo", "*.class", "*.log", "*.swp", ".DS_Store",
      "Thumbs.db">>

\* getPatternFromLine on the lines the program itself supplies, compiled
\* once.
KnownLines ==
    {DefaultLLMIgnoreLines[i] : i \in 1..Len(DefaultLLMIgnoreLines)}
    \union {BuiltinPatterns[i] : i \in 1..Len(BuiltinPatterns)}

KnownPatterns == [l \in KnownLines |-> getPatternFromLine(l)]

CompiledLine(line) ==
    IF line \in KnownLines THEN KnownPatterns[line] ELSE getPatternFromLine(line)

\* gitignore.CompileIgnoreLines(lines...): the patterns of the lines that
\* compile, in order.
CompileIgnoreLines(lines) ==
    SelectSeq([i \in 1..Len(lines) |-> CompiledLine(lines[i])], LAMBDA p : p.ok)

\* ip.Pattern.MatchString(f), f split at "/" into fsegs: the body lies on
\* whole elements of the path starting at some element i; a directory
\* pattern needs a "/" after it.
PatternMatchesAt(ip, fsegs) ==
    LET n == Len(fsegs)
        k == Len(ip.segs)
        starts == IF ip.anchored
                  THEN {1} \union (IF n >= 2 /\ fsegs[1] = "" THEN {2} ELSE {})
                  ELSE 1..n
    IN  \E i \in starts :
            /\ i + k - 1 <= n
            /\ \A j \in 1..k :
                   IF ip.stars[j] THEN GlobMatch(ip.segs[j], fsegs[i + j - 1], FALSE)
                   ELSE ip.segs[j] = fsegs[i + j - 1]
            /\ ip.dirOnly => i + k - 1 < n

\* The same for a path given with the set of its elements (names) and the
\* set of its elements other than the last (dirs): a body of one literal
\* element, not anchored, matches when it is one of those elements.
PatternMatches(ip, f) ==
    IF ~ip.anchored /\ Len(ip.segs) = 1 /\ ~ip.stars[1]
    THEN ip.segs[1] \in (IF ip.dirOnly THEN f.dirs ELSE f.names)
    ELSE PatternMatchesAt(ip, f.segs)

\* A path split at "/".
SplitPath(f) ==
    LET fsegs == Split(f, "/")
    IN  [segs |-> fsegs,
         names |-> {fsegs[i] : i \in 1..Len(fsegs)},
         dirs |-> {fsegs[i] : i \in 1..(Len(fsegs) - 1)}]

\* gi.MatchesPath(f).  The loop runs over every pattern: one that matches
\* sets the result, a negated one that matches clears it, so the last
\* pattern to match decides.
MatchesPath(gi, f) ==
    LET sp == SplitPath(f)
        hits == {i \in 1..Len(gi) : PatternMatches(gi[i], sp)}
    IN  /\ hits # {}
        /\ ~gi[CHOOSE i \in hits : \A j \in hits : j <= i].negate

\* -------------------------------------------------------------- filesystem
\* A filesystem maps each existing absolute path to its entry.
\* The content of a file is kept as text when every byte of it is a byte of
\* the table, and as its bytes otherwise.
Pack(b) ==
    IF \A i \in 1..Len(b) : b[i] \in TextBytes
    THEN [text |-> StringOf(b), raw |-> <<>>]
    ELSE [text |-> "", raw |-> b]

\* The bytes of a content.
Unpack(d) == IF d.raw = <<>> THEN Bytes(d.text) ELSE d.raw

\* An entry is denied when opening it (os.Open, os.ReadFile, os.ReadDir)
\* fails with a permission error; os.Stat and os.Lstat of it succeed.
DirEntry == [isDir |-> TRUE, data |-> Pack(<<>>), denied |-> FALSE]

FileEntry(data) == [isDir |-> FALSE, data |-> Pack(data), denied |-> FALSE]

Denied(entry) == [entry EXCEPT !.denied = TRUE]

\* os.ReadFile(p)
DataOf(fsys, p) == Unpack(fsys[p].data)

GoSource == Bytes("package main\n")

\* A file that starts with the PNG signature.
PngBytes == <<137, 80, 78, 71, 13, 10, 26, 10>>

\* Valid UTF-8 with three NUL bytes.
NulBytes == <<0, 0, 0, 65>>

ProjectRoot == "/proj"

\* The project of the end-to-end scenario.
TreeE2E ==
    ("/" :> DirEntry) @@
    ("/proj" :> DirEntry) @@
    ("/proj/.git" :> DirEntry) @@
    ("/proj/.git/HEAD" :> FileEntry(Bytes("ref: refs/heads/main\n"))) @@
    ("/proj/.gitignore" :> FileEntry(Bytes("node_modules/\n"))) @@
    ("/proj/node_modules" :> DirEntry) @@
    ("/proj/node_modules/pkg" :> DirEntry) @@
    ("/proj/node_modules/pkg/index.js" :> FileEntry(Bytes("module.exports = 1\n"))) @@
    ("/proj/src" :> DirEntry) @@
    ("/proj/src/a.go" :> FileEntry(GoSource)) @@
    ("/proj/src/img.png" :> FileEntry(PngBytes))

\* The same project with a second entry in .git.
TreeE2EGit == TreeE2E @@ ("/proj/.git/config" :> FileEntry(Bytes("[core]\n")))

\* A project with nested directories, names that differ in case, log files,
\* a PNG without extension and a file with NUL bytes.
TreeMixed ==
    ("/" :> DirEntry) @@
    ("/proj" :> DirEntry) @@
    ("/proj/.gitignore" :> FileEntry(Bytes("*.log\n!important.log\n"))) @@
    ("/proj/B.go" :> FileEntry(GoSource)) @@
    ("/proj/a" :> DirEntry) @@
    ("/proj/a/b" :> DirEntry) @@
    ("/proj/a/b/c.go" :> FileEntry(GoSource)) @@
    ("/proj/a/b.go" :> FileEntry(GoSource)) @@
    ("/proj/a.b" :> DirEntry) @@
    ("/proj/a.b/x.go" :> FileEntry(GoSource)) @@
    ("/proj/debug.log" :> FileEntry(Bytes("started\n"))) @@
    ("/proj/important.log" :> FileEntry(Bytes("kept\n"))) @@
    ("/proj/logo" :> FileEntry(PngBytes)) @@
    ("/proj/src" :> DirEntry) @@
    ("/proj/src/nul.txt" :> FileEntry(NulBytes))

\* A project with a directory and a file that cannot be opened.
TreeDenied ==
    ("/" :> DirEntry) @@
    ("/proj" :> DirEntry) @@
    ("/proj/locked" :> Denied(DirEntry)) @@
    ("/proj/locked/x.go" :> FileEntry(GoSource)) @@
    ("/proj/main.go" :> FileEntry(GoSource)) @@
    ("/proj/secret.txt" :> Denied(FileEntry(Bytes("token\n")))) @@
    ("/proj/src" :> DirEntry) @@
    ("/proj/src/z.go" :> FileEntry(GoSource))

\* A project whose directories can all be read, with a file that cannot be
\* opened.
TreeUnreadable ==
    ("/" :> DirEntry) @@
    ("/proj" :> DirEntry) @@
    ("/proj/main.go" :> FileEntry(GoSource)) @@
    ("/proj/secret.txt" :> Denied(FileEntry(Bytes("token\n")))) @@
    ("/proj/src" :> DirEntry) @@
    ("/proj/src/z.go" :> FileEntry(GoSource))

\* A working tree whose .git is a regular file, as git writes it for a
\* linked worktree or a submodule.
TreeGitFile ==
    ("/" :> DirEntry) @@
    ("/proj" :> DirEntry) @@
    ("/proj/.git" :> FileEntry(Bytes("gitdir: /repo/.git/worktrees/proj\n"))) @@
    ("/proj/main.go" :> FileEntry(GoSource)) @@
    ("/proj/src" :> DirEntry) @@
    ("/proj/src/z.go" :> FileEntry(GoSource))

Trees == {TreeE2E, TreeE2EGit, TreeMixed, TreeDenied, TreeUnreadable, TreeGitFile}

Exists(fsys, p) == p \in DOMAIN fsys

IsDirAt(fsys, p) == Exists(fsys, p) /\ fsys[p].isDir

\* The paths of S in ascending byte order.
RECURSIVE SortedPaths(_)
SortedPaths(S) ==
    IF S = {} THEN <<>>
    ELSE LET m == CHOOSE p \in S : \A q \in S : q = p \/ StrLess(p, q)
         IN  <<m>> \o SortedPaths(S \ {m})

\* os.ReadDir(dir): the entries of dir, sorted by file name.
ReadDir(fsys, dir) == SortedPaths({p \in DOMAIN fsys : p # "/" /\ Dir(p) = dir})

\* WriteStringToFile(filePath, content): os.MkdirAll of the directory, then
\* os.Create and the write.  ok is FALSE when a file stands where a directory
\* is needed or a directory where the file is to be created.
WriteStringToFile(fsys, filePath, content) ==
    LET dirs == Ancestors(filePath)
    IN  IF \/ \E a \in dirs : Exists(fsys, a) /\ ~fsys[a].isDir
           \/ IsDirAt(fsys, filePath)
           \/ Exists(fsys, filePath) /\ fsys[filePath].denied
        THEN [ok |-> FALSE, fs |-> fsys]
        ELSE [ok |-> TRUE,
              fs |-> [q \in DOMAIN fsys \union dirs \union {filePath} |->
                         IF q = filePath THEN FileEntry(content)
                         ELSE IF q \in DOMAIN fsys THEN fsys[q]
                         ELSE DirEntry]]

\* ------------------------------------------------------------ RuleSetBuilder
\* strings.Join(lines[lo-1:hi], "\n") + "\n", by halves.
RECURSIVE JoinLines(_, _, _)
JoinLines(lines, lo, hi) ==
    IF lo > hi THEN ""
    ELSE IF lo = hi THEN lines[lo] \o "\n"
    ELSE JoinLines(lines, lo, (lo + hi) \div 2) \o JoinLines(lines, (lo + hi) \div 2 + 1, hi)

\* The content CreateDefaultLLMIgnoreFile writes to .llmignore.
DefaultLLMIgnoreContent ==
    Bytes(JoinLines(DefaultLLMIgnoreLines, 1, Len(DefaultLLMIgnoreLines)))

\* strings.Split(string(content), "\n"): one more line than there are
\* newline bytes, the k-th running from after the (k-1)-th newline to before
\* the k-th.
LinesOf(data) ==
    LET nl == {j \in 1..Len(data) : data[j] = 10}
        before == [j \in nl |-> Cardinality({x \in nl : x < j})]
        nth(k) == CHOOSE j \in nl : before[j] = k - 1
        n == Cardinality(nl)
    IN  [k \in 1..(n + 1) |->
            StringOf(SubSeq(data, IF k = 1 THEN 1 ELSE nth(k - 1) + 1,
                                  IF k = n + 1 THEN Len(data) ELSE nth(k) - 1))]

DefaultLLMIgnoreEntry == FileEntry(DefaultLLMIgnoreContent)

\* What LinesOf gives for the default content, computed once.
DefaultLLMIgnoreRead == LinesOf(DefaultLLMIgnoreContent)

\* readFileLines(path) of LoadIgnoreMatcher: no lines for a file that does
\* not exist; for one that cannot be read the caller prints a warning and
\* appends nothing.
readFileLines(fsys, path) ==
    IF ~Exists(fsys, path) \/ fsys[path].denied \/ fsys[path].isDir THEN <<>>
    ELSE IF fsys[path] = DefaultLLMIgnoreEntry THEN DefaultLLMIgnoreRead
    ELSE LinesOf(DataOf(fsys, path))

\* The filesystem left, were .llmignore created whenever it is missing.
LoadIgnoreFsRegardless(fsys, root, useLLMIgnore) ==
    IF ~Exists(fsys, Join(root, ".llmignore"))
    THEN WriteStringToFile(fsys, Join(root, ".llmignore"), DefaultLLMIgnoreContent).fs
    ELSE fsys

\* The filesystem LoadIgnoreMatcher(rootDir, _, useLLMIgnore) leaves:
\* .llmignore is created with the defaults when it is wanted and missing.
LoadIgnoreFs(fsys, root, useLLMIgnore) ==
    IF useLLMIgnore /\ ~Exists(fsys, Join(root, ".llmignore"))
    THEN WriteStringToFile(fsys, Join(root, ".llmignore"), DefaultLLMIgnoreContent).fs
    ELSE fsys

\* The lines of the ignore files as they are found, nothing created.
LoadIgnoreLinesAsFound(fsys, root, useGitignore, useLLMIgnore) ==
    (IF useGitignore THEN readFileLines(fsys, Join(root, ".gitignore")) ELSE <<>>)
    \o (IF useLLMIgnore THEN readFileLines(fsys, Join(root, ".llmignore")) ELSE <<>>)
    \o BuiltinPatterns

\* The lines LoadIgnoreMatcher(rootDir, useGitignore, useLLMIgnore) compiles:
\* .gitignore, then .llmignore as it stands after the creation, then the
\* built-in patterns.
LoadIgnoreLines(fsys, root, useGitignore, useLLMIgnore) ==
    (IF useGitignore THEN readFileLines(fsys, Join(root, ".gitignore")) ELSE <<>>)
    \o (IF useLLMIgnore
        THEN readFileLines(LoadIgnoreFs(fsys, root, useLLMIgnore), Join(root, ".llmignore"))
        ELSE <<>>)
    \o BuiltinPatterns

\* The matcher LoadIgnoreMatcher returns.
LoadIgnoreMatcher(fsys, root, useGitignore, useLLMIgnore) ==
    CompileIgnoreLines(LoadIgnoreLines(fsys, root, useGitignore, useLLMIgnore))

\* ------------------------------------------------------------- TreeRenderer
\* The connectors and indentation of walkTree, in ASCII: "|-- " stands for
\* the tee connector, "+-- " for the corner connector of the last sibling,
\* "|   " for the bar of an open level.
TeeConnector == "|-- "
CornerConnector == "+-- "
BarPrefix == "|   "
BlankPrefix == "    "

\* The less function of walkTree's sort: directories first, then by
\* lower-cased name.
TreeLess(fsys, p, q) ==
    IF fsys[p].isDir # fsys[q].isDir THEN fsys[p].isDir
    ELSE StrLess(ToLower(Base(p)), ToLower(Base(q)))

\* sort.Slice on the filtered entries: an insertion sort (the slices of the
\* model are shorter than 12), e inserted into the sorted acc.
RECURSIVE TreeInsert(_, _, _)
TreeInsert(fsys, acc, e) ==
    IF acc = <<>> THEN <<e>>
    ELSE IF TreeLess(fsys, e, acc[Len(acc)])
         THEN TreeInsert(fsys, SubSeq(acc, 1, Len(acc) - 1), e) \o <<acc[Len(acc)]>>
    ELSE Append(acc, e)

RECURSIVE TreeSort(_, _)
TreeSort(fsys, entries) ==
    IF entries = <<>> THEN <<>>
    ELSE TreeInsert(fsys, TreeSort(fsys, SubSeq(entries, 1, Len(entries) - 1)),
                    entries[Len(entries)])

\* walkTree: the lines written for the entries below currentPath.  A line
\* carries its text and, beside it, the entry it was written for.
RECURSIVE walkTree(_, _, _, _, _, _, _)
RECURSIVE walkEntries(_, _, _, _, _, _, _, _)
walkTree(fsys, included, maxDepth, currentPath, prefix, isRootDir, currentDepth) ==
    IF maxDepth > 0 /\ currentDepth >= maxDepth THEN <<>>
    ELSE IF fsys[currentPath].denied THEN <<>>  \* os.ReadDir fails: a warning
    ELSE LET filteredEntries == SelectSeq(ReadDir(fsys, currentPath),
                                          LAMBDA e : e \in included)
         IN  walkEntries(fsys, included, maxDepth, TreeSort(fsys, filteredEntries),
                         1, prefix, isRootDir, currentDepth)

\* The loop of walkTree over the sorted entries, from the i-th on.
walkEntries(fsys, included, maxDepth, entries, i, prefix, isRootDir, currentDepth) ==
    IF i > Len(entries) THEN <<>>
    ELSE LET entryPath == entries[i]
             isLast == i = Len(entries)
             connector == IF isLast THEN CornerConnector ELSE TeeConnector
             childPrefix == IF isLast THEN BlankPrefix ELSE BarPrefix
             currentPrefix == IF isRootDir THEN "" ELSE prefix
             name == Base(entryPath)
             line == [text |-> currentPrefix \o connector \o name
                                  \o (IF fsys[entryPath].isDir THEN "/" ELSE ""),
                      path |-> entryPath, isDir |-> fsys[entryPath].isDir]
         IN  <<line>>
             \o (IF fsys[entryPath].isDir
                 THEN walkTree(fsys, included, maxDepth, entryPath,
                               currentPrefix \o childPrefix, FALSE, currentDepth + 1)
                 ELSE <<>>)
             \o walkEntries(fsys, included, maxDepth, entries, i + 1, prefix,
                            isRootDir, currentDepth)

\* GenerateFileTree(root, includeCriteria, maxDepth), includeCriteria being
\* membership in included: the line of the root, then the lines of walkTree.
GenerateFileTree(fsys, root, included, maxDepth) ==
    <<[text |-> Base(root) \o "/", path |-> root, isDir |-> TRUE]>>
    \o walkTree(fsys, included, maxDepth, root, "", TRUE, 0)

\* sort.Strings: insertion of e into the sorted acc.
RECURSIVE InsertString(_, _)
InsertString(acc, e) ==
    IF acc = <<>> THEN <<e>>
    ELSE IF StrLess(e, acc[Len(acc)])
         THEN InsertString(SubSeq(acc, 1, Len(acc) - 1), e) \o <<acc[Len(acc)]>>
    ELSE Append(acc, e)

\* The list left in the order of the walk.
KeepOrder(seq) == seq

RECURSIVE SortStrings(_)
SortStrings(seq) ==
    IF seq = <<>> THEN <<>>
    ELSE InsertString(SortStrings(SubSeq(seq, 1, Len(seq) - 1)), seq[Len(seq)])

\* ------------------------------------------------------------ command line
\* The flags of the root command and their defaults.
DefaultFlags ==
    [outputFile |-> "llm.txt", excludes |-> <<>>, includes |-> <<>>,
     targetPath |-> "", maxDepth |-> 0, noGitignore |-> FALSE,
     noLLMignore |-> FALSE, excludeBinary |-> TRUE]

OutputChoices == {"llm.txt", "/proj/out.txt"}
ExcludeChoices == {<<>>, <<"*.go">>, <<"a">>}
IncludeChoices == {<<>>, <<"node_modules/pkg/index.js">>, <<"*.png">>, <<"*.log", "logo">>,
                   <<"a/b/c.go">>, <<"llm.txt">>}
TargetChoices == {"", "src", "a/b", "missing"}
CwdChoices == {"/proj", "/proj/src"}
\* The directory argument; "" is no argument.
ArgChoices == {"", "/proj", "/proj/B.go"}

FlagChoices ==
    [outputFile : OutputChoices, excludes : ExcludeChoices, includes : IncludeChoices,
     targetPath : TargetChoices, maxDepth : 0..MaxDepthOpt, noGitignore : BOOLEAN,
     noLLMignore : BOOLEAN, excludeBinary : BOOLEAN]

\* How many settings of a command line differ from the plain "llmify" run
\* in the project root.
Deviations(f, dir, arg) ==
    Cardinality({k \in DOMAIN DefaultFlags : f[k] # DefaultFlags[k]})
    + (IF dir # ProjectRoot \/ arg # "" THEN 1 ELSE 0)

\* ------------------------------------------------------------------- state
VARIABLES
    fs,                    \* the filesystem
    cwd,                   \* the working directory of the process
    args,                  \* the directory argument, "" when absent
    flags,                 \* the parsed flags
    pc,                    \* where rootCmd.RunE stands
    runNo,                 \* which run of the command this is
    rootDir,               \* main.go's rootDir
    err,                   \* the error RunE returned, "" for none
    ignorer,               \* the lines of the matcher LoadIgnoreMatcher returned
    cr,                    \* CrawlProject's locals set before the walk
    todo,                  \* the entries filepath.WalkDir has yet to visit
    includedFiles,
    includedPathsForTree,
    excludedCount,
    includedCount,
    log,                   \* the lines the crawl prints with --verbose
    result,                \* the CrawlResult of the run
    results,               \* the CrawlResults of the finished runs
    patterns,              \* IgnoreMatcher.patterns of package ignore
    asked,                 \* the path ShouldIgnore was last called with
    answer,                \* what it returned
    limitCall,             \* a call of util.LimitString: its arguments and result
    editCall,              \* a call of editor.ApplyEdits: its arguments and result
    refactor               \* the locals of the refactor command

crawlVars == <<fs, cwd, args, flags, pc, runNo, rootDir, err, ignorer, cr, todo,
               includedFiles, includedPathsForTree, excludedCount, includedCount,
               log, result, results>>

matcherVars == <<patterns, asked, answer>>

toolVars == <<limitCall, editCall, refactor>>

vars == <<crawlVars, matcherVars, toolVars>>

\* No call of util.LimitString was made.
NoLimitCall == [s |-> <<>>, maxLen |-> 0, called |-> FALSE, out |-> <<>>]

\* No call of editor.ApplyEdits was made.
NoEditCall == [originalContent |-> "", edits |-> <<>>, called |-> FALSE, newContent |-> ""]

\* The refactor command was not started.
NoRefactor ==
    [dryRun |-> FALSE, apply |-> FALSE, force |-> FALSE, checkTypes |-> FALSE,
     targetPath |-> "", targetFiles |-> <<>>, result |-> <<>>, results |-> <<>>,
     filesToConfirm |-> <<>>]

\* The tools of the other commands are at rest.
ToolsAtRest ==
    /\ limitCall = NoLimitCall
    /\ editCall = NoEditCall
    /\ refactor = NoRefactor

NoCrawl == [absRootDir |-> "", absOutputFilename |-> "", absTargetPath |-> "",
            isTargetPathDir |-> FALSE, excludeMatcher |-> <<>>, includeMatcher |-> <<>>]

NoResult == [IncludedFiles |-> <<>>, FileTree |-> <<>>, ExcludedCount |-> 0,
             IncludedCount |-> 0]

Init ==
    /\ fs \in Trees
    /\ cwd \in CwdChoices
    /\ args \in ArgChoices
    /\ flags \in FlagChoices
    /\ Deviations(flags, cwd, args) <= MaxDeviations
    /\ pc = "start"
    /\ runNo = 1
    /\ rootDir = ""
    /\ err = ""
    /\ ignorer = <<>>
    /\ cr = NoCrawl
    /\ todo = <<>>
    /\ includedFiles = <<>>
    /\ includedPathsForTree = {}
    /\ excludedCount = 0
    /\ includedCount = 0
    /\ log = <<>>
    /\ result = NoResult
    /\ results = <<>>
    /\ patterns = <<>>
    /\ asked = ""
    /\ answer = FALSE
    /\ ToolsAtRest

\* ------------------------------------------------------------ rootCmd.RunE
\* The root directory RunE settles on.
ChosenRoot == IF args # "" THEN args ELSE cwd

\* The error of the checks RunE makes before the main logic, "" for none.
ValidateError(fsys, root, targetPath) ==
    IF ~Exists(fsys, root) THEN "root directory not found"
    ELSE IF ~fsys[root].isDir THEN "specified path is not a directory"
    ELSE IF targetPath # "" /\ ~Exists(fsys, Join(root, targetPath))
         THEN "target path not found"
    ELSE ""

\* RunE up to the main logic: the root directory and the target path.
Validate ==
    /\ pc = "start"
    /\ rootDir' = ChosenRoot
    /\ err' = ValidateError(fs, ChosenRoot, flags.targetPath)
    /\ pc' = IF err' = "" THEN "load" ELSE "failed"
    /\ UNCHANGED <<fs, cwd, args, flags, runNo, ignorer, cr, todo, includedFiles,
                   includedPathsForTree, excludedCount, includedCount, log,
                   result, results>>
    /\ UNCHANGED matcherVars
    /\ UNCHANGED toolVars

\* 1. Load ignore rules.
LoadIgnore ==
    /\ pc = "load"
    /\ fs' = LoadIgnoreFs(fs, rootDir, ~flags.noLLMignore)
    /\ ignorer' = LoadIgnoreLines(fs, rootDir, ~flags.noGitignore, ~flags.noLLMignore)
    /\ pc' = "crawl"
    /\ UNCHANGED <<cwd, args, flags, runNo, rootDir, err, cr, todo, includedFiles,
                   includedPathsForTree, excludedCount, includedCount, log,
                   result, results>>
    /\ UNCHANGED matcherVars
    /\ UNCHANGED toolVars

\* CrawlProject up to the walk: the absolute paths and the compiled
\* command-line patterns.  rootDir is absolute here, so filepath.Abs keeps it.
CrawlBegin ==
    /\ pc = "crawl"
    /\ LET absTargetPath == IF flags.targetPath # ""
                            THEN Join(rootDir, flags.targetPath) ELSE ""
       IN  IF absTargetPath # "" /\ ~Exists(fs, absTargetPath)
           THEN /\ err' = "cannot stat target path"
                /\ pc' = "failed"
                /\ UNCHANGED <<cr, todo>>
           ELSE /\ cr' = [absRootDir |-> rootDir,
                          absOutputFilename |-> Join(rootDir, flags.outputFile),
                          absTargetPath |-> absTargetPath,
                          isTargetPathDir |-> absTargetPath # "" /\ fs[absTargetPath].isDir,
                          excludeMatcher |-> CompileIgnoreLines(flags.excludes),
                          includeMatcher |-> CompileIgnoreLines(flags.includes)]
                /\ todo' = <<rootDir>>
                /\ pc' = "walk"
                /\ UNCHANGED err
    /\ includedFiles' = <<>>
    /\ includedPathsForTree' = {}
    /\ excludedCount' = 0
    /\ includedCount' = 0
    /\ log' = <<>>
    /\ UNCHANGED <<fs, cwd, args, flags, runNo, rootDir, ignorer, result, results>>
    /\ UNCHANGED matcherVars
    /\ UNCHANGED toolVars

\* The function CrawlProject passes to filepath.WalkDir, on an entry that was
\* read without error: what it decides about the entry (verdict), whether a
\* command-line include overrode an ignore rule or an exclude on the way, and
\* what it returns to WalkDir.
\* A depth that counts the separators of the path, not its elements.
SeparatorCount(relPath) == Len(Split(relPath, "/")) - 1

\* The depth of the depth check.
PathDepth(relPath) == Len(Split(relPath, "/"))

\* isText after the call of IsLikelyTextFile(path) and the handling of its
\* error: a file that cannot be opened counts as not text.
IsTextAt(fsys, path) ==
    IF ToLower(Ext(path)) \notin DefaultBinaryExtensions /\ fsys[path].denied
    THEN FALSE
    ELSE IsLikelyTextFile(path, DataOf(fsys, path))

WalkFn(fsys, c, f, gi, path) ==
    LET isDir == fsys[path].isDir
        relPath == Rel(c.absRootDir, path)
        skip == IF isDir THEN "SkipDir" ELSE "nil"
        isInsideTargetPath ==
            \/ path = c.absTargetPath
            \/ c.isTargetPathDir /\ HasPrefix(path, c.absTargetPath \o "/")
        depth == PathDepth(relPath)
        isIncluded == MatchesPath(c.includeMatcher, path)
        ignored == MatchesPath(gi, path)
        cmdExcluded == MatchesPath(c.excludeMatcher, path)
        out(verdict, ret, o1, o2) ==
            [verdict |-> verdict, ret |-> ret, relPath |-> relPath,
             overrodeIgnore |-> o1, overrodeExclude |-> o2]
    IN  IF relPath = "." THEN out("root", "nil", FALSE, FALSE)
        ELSE IF c.absTargetPath # "" /\ ~isInsideTargetPath
             THEN out("outside-path",
                      IF isDir /\ ~HasPrefix(c.absTargetPath, path \o "/")
                      THEN "SkipDir" ELSE "nil", FALSE, FALSE)
        ELSE IF f.maxDepth > 0 /\ depth > f.maxDepth
             THEN out("depth", skip, FALSE, FALSE)
        ELSE IF path = c.absOutputFilename
             THEN out("output-file", skip, FALSE, FALSE)
        ELSE IF ignored /\ ~isIncluded
             THEN out("ignore-file", skip, FALSE, FALSE)
        ELSE IF cmdExcluded /\ ~isIncluded
             THEN out("cmd-exclude", skip, ignored, FALSE)
        ELSE IF ~isDir /\ ~isIncluded /\ f.excludeBinary /\ ~IsTextAt(fsys, path)
             THEN out("binary", "nil", ignored, cmdExcluded)
        ELSE out("include", "nil", ignored, cmdExcluded)

\* The exclusions counted, were the ignore rules to exclude without counting.
ExcludedVerdictsButIgnore == {"outside-path", "depth", "output-file", "cmd-exclude",
                              "binary"}

ExcludedVerdicts == {"outside-path", "depth", "output-file", "ignore-file",
                     "cmd-exclude", "binary"}

\* The function called a second time for a directory, with the error of
\* os.ReadDir: a warning, and SkipDir.
WalkFnError(c, path) ==
    [verdict |-> "access-error", ret |-> "SkipDir", relPath |-> Rel(c.absRootDir, path),
     overrodeIgnore |-> FALSE, overrodeExclude |-> FALSE]

\* The calls of the function for one entry: the call without error, and for
\* a directory that was not skipped and cannot be read the call with the
\* error.
WalkCalls(fsys, c, path, r) ==
    (IF r.verdict = "root" THEN <<>> ELSE <<r>>)
    \o (IF fsys[path].isDir /\ r.ret # "SkipDir" /\ fsys[path].denied
        THEN <<WalkFnError(c, path)>> ELSE <<>>)

\* filepath.WalkDir after the function returned ret for the entry at the
\* head of todo: a directory is read and its entries come next, unless the
\* function returned SkipDir or the directory cannot be read; SkipDir for a
\* file drops the rest of its directory.
WalkNext(fsys, pending, ret) ==
    LET path == Head(pending)
        rest == Tail(pending)
    IN  IF fsys[path].isDir
        THEN IF ret = "SkipDir" \/ fsys[path].denied THEN rest
             ELSE ReadDir(fsys, path) \o rest
        ELSE IF ret = "SkipDir" THEN SelectSeq(rest, LAMBDA q : Dir(q) # Dir(path))
        ELSE rest

\* One call of the walk function, on the next entry of the walk.
Visit ==
    /\ pc = "walk"
    /\ todo # <<>>
    /\ \E path \in {Head(todo)} :
       \E r \in {WalkFn(fs, cr, flags, CompileIgnoreLines(ignorer), path)} :
           /\ excludedCount' = excludedCount + (IF r.verdict \in ExcludedVerdicts THEN 1 ELSE 0)
           /\ includedCount' = includedCount + (IF r.verdict = "include" THEN 1 ELSE 0)
           /\ includedPathsForTree' =
                  IF r.verdict = "include" THEN includedPathsForTree \union {path}
                  ELSE includedPathsForTree
           /\ includedFiles' =
                  IF r.verdict = "include" /\ ~fs[path].isDir
                  THEN Append(includedFiles, r.relPath) ELSE includedFiles
           /\ log' = log \o WalkCalls(fs, cr, path, r)
           /\ todo' = WalkNext(fs, todo, r.ret)
    /\ UNCHANGED <<fs, cwd, args, flags, pc, runNo, rootDir, err, ignorer, cr,
                   result, results>>
    /\ UNCHANGED matcherVars
    /\ UNCHANGED toolVars

\* CrawlProject after the walk: the sort, the tree and the result.
CrawlFinish ==
    /\ pc = "walk"
    /\ todo = <<>>
    /\ result' = [IncludedFiles |-> SortStrings(includedFiles),
                  FileTree |-> GenerateFileTree(fs, cr.absRootDir, includedPathsForTree,
                                                flags.maxDepth),
                  ExcludedCount |-> excludedCount,
                  IncludedCount |-> includedCount]
    /\ pc' = "crawled"
    /\ UNCHANGED <<fs, cwd, args, flags, runNo, rootDir, err, ignorer, cr, todo,
                   includedFiles, includedPathsForTree, excludedCount,
                   includedCount, log, results>>
    /\ UNCHANGED matcherVars
    /\ UNCHANGED toolVars

\* The bytes of the sections BuildOutputContent writes for the files from
\* the i-th on.
RECURSIVE FileSections(_, _, _, _)
FileSections(fsys, root, files, i) ==
    IF i > Len(files) THEN <<>>
    ELSE Bytes("### File: " \o files[i] \o "\n")
         \o (IF fsys[Join(root, files[i])].denied THEN Bytes("Error reading file")
             ELSE ReadFileContent(DataOf(fsys, Join(root, files[i]))))
         \o FileSections(fsys, root, files, i + 1)

\* BuildOutputContent: the bytes of the document.  Of the framing only the
\* headings are kept; all of it is ASCII or well-formed UTF-8.
BuildOutputContent(fsys, root, res) ==
    Bytes("## File Tree Structure\n") \o Bytes("## File Contents\n")
    \o FileSections(fsys, root, res.IncludedFiles, 1)

\* Where RunE writes the document.
OutputPath == IF IsAbs(flags.outputFile) THEN flags.outputFile
              ELSE Join(cwd, flags.outputFile)

\* 3. and 4. Build the content and write the output file.
WriteOutput ==
    /\ pc = "crawled"
    /\ \E w \in {WriteStringToFile(fs, OutputPath, BuildOutputContent(fs, rootDir, result))} :
           /\ fs' = w.fs
           /\ err' = IF w.ok THEN "" ELSE "failed to write output file"
           /\ pc' = IF w.ok THEN "done" ELSE "failed"
           /\ results' = IF w.ok THEN Append(results, result) ELSE results
    /\ UNCHANGED <<cwd, args, flags, runNo, rootDir, ignorer, cr, todo,
                   includedFiles, includedPathsForTree, excludedCount,
                   includedCount, log, result>>
    /\ UNCHANGED matcherVars
    /\ UNCHANGED toolVars

\* The command is started again, in the same directory with the same
\* command line.
Rerun ==
    /\ pc = "done"
    /\ runNo < MaxRuns
    /\ runNo' = runNo + 1
    /\ pc' = "start"
    /\ UNCHANGED <<fs, cwd, args, flags, rootDir, err, ignorer, cr, todo,
                   includedFiles, includedPathsForTree, excludedCount,
                   includedCount, log, result, results>>
    /\ UNCHANGED matcherVars
    /\ UNCHANGED toolVars

Next ==
    \/ Validate
    \/ LoadIgnore
    \/ CrawlBegin
    \/ Visit
    \/ CrawlFinish
    \/ WriteOutput
    \/ Rerun

Spec == Init /\ [][Next]_vars

\* ------------------------------------------------ package ignore, in use
\* The patterns a matcher is given and the paths it is asked about.
PatternPool == {"*.log", "!important.log", "build/", "a/b/", "b/c.go", "docs/**", "Makefile"}

PathPool == {"important.log", "debug.log", "build", "build/output.txt",
             "rebuild/output.txt", "a/b/c.go", "x/a/b/c.go", "docs/api/index.md",
             "src/Makefile"}

\* The crawler does not run while the matcher is exercised.
MatcherInit ==
    /\ fs = TreeMixed
    /\ cwd = ProjectRoot
    /\ args = ""
    /\ flags = DefaultFlags
    /\ pc = "start"
    /\ runNo = 1
    /\ rootDir = ""
    /\ err = ""
    /\ ignorer = <<>>
    /\ cr = NoCrawl
    /\ todo = <<>>
    /\ includedFiles = <<>>
    /\ includedPathsForTree = {}
    /\ excludedCount = 0
    /\ includedCount = 0
    /\ log = <<>>
    /\ result = NoResult
    /\ results = <<>>
    /\ patterns = <<>>
    /\ asked = ""
    /\ answer = FALSE
    /\ ToolsAtRest

\* m.AddPattern(pattern).  An answer given before belongs to the patterns
\* of before and is dropped.
AddPattern ==
    /\ Len(patterns) < MaxPatterns
    /\ \E pattern \in PatternPool : patterns' = Append(patterns, pattern)
    /\ asked' = ""
    /\ answer' = FALSE
    /\ UNCHANGED crawlVars
    /\ UNCHANGED toolVars

\* m.ShouldIgnore(path)
AskShouldIgnore ==
    /\ \E path \in PathPool :
           /\ asked' = path
           /\ answer' = ShouldIgnore(patterns, path)
    /\ UNCHANGED patterns
    /\ UNCHANGED crawlVars
    /\ UNCHANGED toolVars

MatcherNext ==
    \/ AddPattern
    \/ AskShouldIgnore

MatcherSpec == MatcherInit /\ [][MatcherNext]_vars

\* ------------------------------------ package cmd and package crawler
\* The second implementation of the command: rootCmd of cmd/root.go over
\* internal/crawler, which matches through package ignore and walks with
\* filepath.Walk.  It runs on the same variables: rootDir holds absRootDir,
\* cr.absTargetPath the directory CrawlProject is given, patterns the
\* patterns of the matcher.

\* The flags of cmd/root.go and their defaults: --output defaults to "",
\* which RunE replaces by "llm.txt"; --target is held in targetPath and
\* --depth in maxDepth.
InternalDefaultFlags == [DefaultFlags EXCEPT !.outputFile = ""]

InternalOutputChoices == {"", "/proj/out.txt"}

InternalFlagChoices ==
    [outputFile : InternalOutputChoices, excludes : ExcludeChoices,
     includes : IncludeChoices, targetPath : TargetChoices, maxDepth : 0..MaxDepthOpt,
     noGitignore : BOOLEAN, noLLMignore : BOOLEAN, excludeBinary : BOOLEAN]

InternalDeviations(f, dir, arg) ==
    Cardinality({k \in DOMAIN InternalDefaultFlags : f[k] # InternalDefaultFlags[k]})
    + (IF dir # ProjectRoot \/ arg # "" THEN 1 ELSE 0)

\* defaultPatterns of crawler.CreateDefaultLLMIgnoreFile.
InternalDefaultPatterns ==
    <<".git/", ".git/**", "node_modules/", "vendor/", "dist/", "build/",
      "*.log", "*.lock", "*.exe", "*.dll", "*.so", "*.dylib", "*.class",
      "*.jar", "*.war", "*.ear", "*.zip", "*.tar", "*.gz", "*.rar", "*.7z",
      "*.pdf", "*.jpg", "*.jpeg", "*.png", "*.gif", "*.ico", "*.svg",
      "*.woff", "*.woff2", "*.ttf", "*.eot", "*.mp4", "*.webm", "*.mp3",
      "*.wav", "*.flac", "*.m4a", "*.db", "*.sqlite", "*.sqlite3",
      "*.cache", "*.tmp", "*.temp", "*.bak", "*.swp", "*.swo", "*~",
      ".DS_Store", "Thumbs.db", "*.bin", "*.dat", "*.iso", "*.img",
      ".idea/", ".vscode/", ".vs/", "*.sublime-*", "*.o", "*.obj", "*.a",
      "*.lib", "*.pyc", "*.pyo", "__pycache__/", ".pytest_cache/",
      "bower_components/", "jspm_packages/", ".pnpm-store/", "coverage/",
      ".nyc_output/", "test-results/", "cypress/videos/",
      "cypress/screenshots/", "tmp/", "temp/", "logs/", ".env",
      ".env.local", ".env.*.local", "docs/_build/", "_site/",
      ".docusaurus/", ".vuepress/dist/", "llm.txt">>

\* strings.Join(lines[lo-1:hi], "\n"), by halves.
RECURSIVE JoinNoTrail(_, _, _)
JoinNoTrail(lines, lo, hi) ==
    IF lo > hi THEN ""
    ELSE IF lo = hi THEN lines[lo]
    ELSE JoinNoTrail(lines, lo, (lo + hi) \div 2) \o "\n"
         \o JoinNoTrail(lines, (lo + hi) \div 2 + 1, hi)

\* The content crawler.CreateDefaultLLMIgnoreFile writes.
InternalDefaultContent ==
    Bytes(JoinNoTrail(InternalDefaultPatterns, 1, Len(InternalDefaultPatterns)))

InternalDefaultEntry == FileEntry(InternalDefaultContent)

\* The loop of ignore.LoadIgnoreFile over the lines of the scanner: each
\* line trimmed, empty lines and comments dropped.
ScanPatterns(data) ==
    SelectSeq([k \in 1..Len(LinesOf(data)) |-> TrimSpaces(LinesOf(data)[k])],
              LAMBDA l : l # "" /\ ~HasPrefix(l, "#"))

\* What ScanPatterns gives for the default content, computed once.
InternalDefaultRead == ScanPatterns(InternalDefaultContent)

\* ignore.LoadIgnoreFile(path): ok is FALSE when the file cannot be opened
\* or read.
LoadIgnoreFile(fsys, path) ==
    IF ~Exists(fsys, path) \/ fsys[path].denied \/ fsys[path].isDir
    THEN [ok |-> FALSE, patterns |-> <<>>]
    ELSE [ok |-> TRUE,
          patterns |-> IF fsys[path] = InternalDefaultEntry THEN InternalDefaultRead
                       ELSE ScanPatterns(DataOf(fsys, path))]

\* crawler.LoadIgnoreMatcher(projectRoot, noGitignore, noLLMignore): the
\* patterns of the matcher it returns.
CrawlerLoadIgnoreMatcher(fsys, projectRoot, noGitignore, noLLMignore) ==
    (IF noGitignore THEN <<>> ELSE LoadIgnoreFile(fsys, Join(projectRoot, ".gitignore")).patterns)
    \o (IF noLLMignore THEN <<>>
        ELSE LoadIgnoreFile(fsys, Join(projectRoot, ".llmignore")).patterns)

\* The patterns RunE adds to the matcher: the excludes, the includes
\* negated, and .git and node_modules.
AddedPatterns(f) ==
    f.excludes
    \o [i \in 1..Len(f.includes) |-> "!" \o f.includes[i]]
    \o <<".git/", ".git/**", "node_modules/", "node_modules/**">>

\* The first bytes util.IsLikelyTextFile takes for the mark of a binary file.
BinarySignatures ==
    {<<0, 0, 0>>, <<255, 216, 255>>, <<137, 80, 78>>, <<71, 73, 70>>, <<73, 73, 42>>,
     <<77, 77, 0>>, <<37, 80, 68>>, <<80, 75, 3>>, <<31, 139, 8>>, <<55, 122, 188>>,
     <<82, 97, 114>>, <<77, 90, 144>>, <<127, 69, 76>>, <<202, 254, 186>>,
     <<254, 237, 250>>, <<0, 0, 254>>}

\* The size of the buffer util.IsLikelyTextFile reads.
UtilChunkSize == 1024

\* util.IsLikelyTextFile on a file that opens, with content data: valid
\* UTF-8, none of the signatures, and not more than 30% control characters.
UtilIsLikelyTextFile(data) ==
    LET chunk == SubSeq(data, 1, Min({UtilChunkSize, Len(data)}))
        n == Len(chunk)
        controlChars == Cardinality({i \in 1..n : chunk[i] < 32 /\ chunk[i] \notin {9, 10, 13}})
    IN  /\ Utf8Valid(chunk)
        /\ ~(n >= 3 /\ SubSeq(chunk, 1, 3) \in BinarySignatures)
        /\ ~(n > 0 /\ 10 * controlChars > 3 * n)

\* The paths both walks of package crawler skip by name.
IsFloorPath(relPath) ==
    \/ relPath = ".git"
    \/ HasPrefix(relPath, ".git/")
    \/ relPath = "node_modules"
    \/ HasPrefix(relPath, "node_modules/")

\* strings.Count(relPath, string(os.PathSeparator))
CountSeparators(relPath) == Cardinality({i \in 1..Len(relPath) : Char(relPath, i) = "/"})

\* strings.Repeat("  ", depth)
RECURSIVE Indent(_)
Indent(depth) == IF depth = 0 THEN "" ELSE "  " \o Indent(depth - 1)

\* filepath.Walk calls its function once for a directory, with the error of
\* reading it.
WalkError(fsys, path) == fsys[path].isDir /\ fsys[path].denied

\* The function generateFileTree passes to filepath.Walk: what it returns
\* ("err" for an error other than SkipDir) and the line it writes.
TreeWalkFn(fsys, root, pats, maxDepth, path) ==
    LET relPath == Rel(root, path)
        isDir == fsys[path].isDir
        depth == CountSeparators(relPath)
        skip == IF isDir THEN "SkipDir" ELSE "nil"
    IN  IF WalkError(fsys, path) THEN [ret |-> "err", lines |-> <<>>]
        ELSE IF relPath = "." THEN [ret |-> "nil", lines |-> <<>>]
        ELSE IF IsFloorPath(relPath) THEN [ret |-> "SkipDir", lines |-> <<>>]
        ELSE IF maxDepth > 0 /\ depth >= maxDepth THEN [ret |-> skip, lines |-> <<>>]
        ELSE IF ShouldIgnore(pats, relPath) THEN [ret |-> skip, lines |-> <<>>]
        ELSE [ret |-> "nil",
              lines |-> <<[text |-> Indent(depth)
                                    \o (IF isDir THEN CornerConnector ELSE TeeConnector)
                                    \o Base(path),
                           path |-> path, isDir |-> isDir]>>]

\* filepath.Walk under generateFileTree: the calls of the function, up to
\* the first that returns an error.
RECURSIVE TreeWalk(_, _, _, _, _)
TreeWalk(fsys, root, pats, maxDepth, pending) ==
    IF pending = <<>> THEN <<>>
    ELSE \* the call is bound once
         LET next(r) == IF r.ret = "err" THEN <<r>>
                        ELSE <<r>> \o TreeWalk(fsys, root, pats, maxDepth,
                                               WalkNext(fsys, pending, r.ret))
         IN  next(TreeWalkFn(fsys, root, pats, maxDepth, Head(pending)))

\* The lines of the calls of a walk, in order.
RECURSIVE LinesOfCalls(_, _)
LinesOfCalls(calls, i) ==
    IF i > Len(calls) THEN <<>> ELSE calls[i].lines \o LinesOfCalls(calls, i + 1)

\* A walk ended with an error.
WalkFailed(calls) == calls # <<>> /\ calls[Len(calls)].ret = "err"

\* generateFileTree(root, matcher, maxDepth) after its walk made calls: the
\* line of the root, then the lines of the walk.
generateFileTree(fsys, root, calls) ==
    <<[text |-> Base(root), path |-> root, isDir |-> fsys[root].isDir]>>
    \o LinesOfCalls(calls, 1)

\* The function CrawlProject passes to filepath.Walk.
CrawlWalkFn(fsys, root, pats, excludeBinary, path) ==
    LET relPath == Rel(root, path)
        out(verdict, ret) ==
            [verdict |-> verdict, ret |-> ret, relPath |-> relPath,
             overrodeIgnore |-> FALSE, overrodeExclude |-> FALSE]
    IN  IF WalkError(fsys, path) THEN out("access-error", "err")
        ELSE IF IsFloorPath(relPath) THEN out("floor", "SkipDir")
        ELSE IF fsys[path].isDir THEN out("dir", "nil")
        ELSE IF ShouldIgnore(pats, relPath) THEN out("ignore-file", "nil")
        ELSE IF excludeBinary /\ fsys[path].denied THEN out("classify-error", "err")
        ELSE IF excludeBinary /\ ~UtilIsLikelyTextFile(DataOf(fsys, path))
             THEN out("binary", "nil")
        ELSE out("include", "nil")

\* filepath.Walk under CrawlProject: the calls of the function, up to the
\* first that returns an error.
RECURSIVE CrawlWalk(_, _, _, _, _)
CrawlWalk(fsys, root, pats, excludeBinary, pending) ==
    IF pending = <<>> THEN <<>>
    ELSE LET next(r) == IF r.ret = "err" THEN <<r>>
                        ELSE <<r>> \o CrawlWalk(fsys, root, pats, excludeBinary,
                                                WalkNext(fsys, pending, r.ret))
         IN  next(CrawlWalkFn(fsys, root, pats, excludeBinary, Head(pending)))

\* crawler.CrawlProject(projectRoot, matcher, maxDepth, excludeBinary) after
\* the walk of generateFileTree made treeCalls and its own walk made calls
\* (none when the tree failed): the error it returns, "" for none, its
\* result, and the calls of its walk.
CrawlerCrawlProject(fsys, projectRoot, treeCalls, calls) ==
    IF WalkFailed(treeCalls)
    THEN [err |-> "generating file tree", result |-> NoResult, calls |-> <<>>]
    ELSE IF WalkFailed(calls)
    THEN [err |-> "walking project directory", result |-> NoResult, calls |-> calls]
    ELSE [err |-> "",
          result |-> [IncludedFiles |->
                          [i \in 1..Len(SelectSeq(calls, LAMBDA r : r.verdict = "include")) |->
                              SelectSeq(calls, LAMBDA r : r.verdict = "include")[i].relPath],
                      FileTree |-> generateFileTree(fsys, projectRoot, treeCalls),
                      ExcludedCount |->
                          Len(SelectSeq(calls, LAMBDA r : r.verdict \in {"ignore-file", "binary"})),
                      IncludedCount |->
                          Len(SelectSeq(calls, LAMBDA r : r.verdict = "include"))],
          calls |-> calls]

\* The length BuildOutputContent cuts a file's content to.
OutputLimit == 10000

\* util.LimitString(s, maxLen), on the bytes of s.
LimitString(b, maxLen) ==
    IF Len(b) <= maxLen THEN b
    ELSE LET nls == {i \in 1..maxLen : b[i] = 10}
             lastNL == IF nls = {} THEN -1 ELSE (CHOOSE i \in nls : \A j \in nls : j <= i) - 1
             safeCut == IF lastNL > maxLen \div 2 THEN lastNL ELSE maxLen
         IN  SubSeq(b, 1, safeCut) \o Bytes("...")

\* The file a relative path names for the process.
AtCwd(dir, file) == IF IsAbs(file) THEN file ELSE IF file = "." THEN dir ELSE Join(dir, file)

\* The sections crawler.BuildOutputContent writes for the files from the
\* i-th on; util.ReadFileContent is given the path as CrawlProject listed it,
\* relative to the directory it walked.
RECURSIVE CrawlerFileSections(_, _, _, _)
CrawlerFileSections(fsys, dir, files, i) ==
    IF i > Len(files) THEN <<>>
    ELSE LET p == AtCwd(dir, files[i])
         IN  Bytes("## " \o files[i] \o "\n\n")
             \o (IF ~Exists(fsys, p) \/ fsys[p].isDir \/ fsys[p].denied
                 THEN Bytes("Error reading file")
                 ELSE LimitString(ReadFileContent(DataOf(fsys, p)), OutputLimit))
             \o Bytes("\n\n")
             \o CrawlerFileSections(fsys, dir, files, i + 1)

\* crawler.BuildOutputContent(result, includeHeader) with the header, the
\* text of the tree left out of it.
CrawlerBuildOutputContent(fsys, dir, res) ==
    Bytes("# Project Structure\n\n") \o Bytes("\n\n# File Contents\n\n")
    \o CrawlerFileSections(fsys, dir, res.IncludedFiles, 1)

\* os.WriteFile(name, data, 0644): the file is created or truncated; its
\* directory has to exist.
WriteFile(fsys, name, data) ==
    IF \/ ~IsDirAt(fsys, Dir(name))
       \/ IsDirAt(fsys, name)
       \/ Exists(fsys, name) /\ fsys[name].denied
    THEN [ok |-> FALSE, fs |-> fsys]
    ELSE [ok |-> TRUE,
          fs |-> [q \in DOMAIN fsys \union {name} |->
                     IF q = name THEN FileEntry(data) ELSE fsys[q]]]

InternalInit ==
    /\ fs \in Trees
    /\ cwd \in CwdChoices
    /\ args \in ArgChoices
    /\ flags \in InternalFlagChoices
    /\ InternalDeviations(flags, cwd, args) <= MaxDeviations
    /\ pc = "start"
    /\ runNo = 1
    /\ rootDir = ""
    /\ err = ""
    /\ ignorer = <<>>
    /\ cr = NoCrawl
    /\ todo = <<>>
    /\ includedFiles = <<>>
    /\ includedPathsForTree = {}
    /\ excludedCount = 0
    /\ includedCount = 0
    /\ log = <<>>
    /\ result = NoResult
    /\ results = <<>>
    /\ patterns = <<>>
    /\ asked = ""
    /\ answer = FALSE
    /\ ToolsAtRest

\* What no action of this implementation writes.
internalIdle == <<cwd, args, flags, runNo, ignorer, todo, includedFiles,
                  includedPathsForTree, excludedCount, includedCount, results,
                  asked, answer, limitCall, editCall, refactor>>

\* RunE: the root directory is made absolute and has to exist.
InternalValidate ==
    /\ pc = "start"
    /\ rootDir' = ChosenRoot
    /\ err' = IF Exists(fs, ChosenRoot) THEN "" ELSE "directory does not exist"
    /\ pc' = IF err' = "" THEN "llmignore" ELSE "failed"
    /\ UNCHANGED <<fs, cr, log, result, patterns>>
    /\ UNCHANGED internalIdle

\* RunE: the default .llmignore is created when it is wanted and missing; a
\* failure to write it is a warning.
InternalCreateLLMIgnore ==
    /\ pc = "llmignore"
    /\ fs' = IF ~flags.noLLMignore /\ ~Exists(fs, Join(rootDir, ".llmignore"))
             THEN WriteStringToFile(fs, Join(rootDir, ".llmignore"), InternalDefaultContent).fs
             ELSE fs
    /\ pc' = "load"
    /\ UNCHANGED <<rootDir, err, cr, log, result, patterns>>
    /\ UNCHANGED internalIdle

\* RunE: the matcher is loaded and the patterns of the command line and of
\* the floor are added to it.
InternalLoadIgnore ==
    /\ pc = "load"
    /\ patterns' = CrawlerLoadIgnoreMatcher(fs, rootDir, flags.noGitignore, flags.noLLMignore)
                   \o AddedPatterns(flags)
    /\ pc' = "target"
    /\ UNCHANGED <<fs, rootDir, err, cr, log, result>>
    /\ UNCHANGED internalIdle

\* RunE: the target path is joined to the root and has to exist.
InternalTarget ==
    /\ pc = "target"
    /\ \E absTargetPath \in {IF flags.targetPath = "" THEN rootDir
                             ELSE Join(rootDir, flags.targetPath)} :
           /\ cr' = [cr EXCEPT !.absTargetPath = absTargetPath]
           /\ err' = IF Exists(fs, absTargetPath) THEN "" ELSE "target path does not exist"
    /\ pc' = IF err' = "" THEN "crawl" ELSE "failed"
    /\ UNCHANGED <<fs, rootDir, log, result, patterns>>
    /\ UNCHANGED internalIdle

\* RunE: crawler.CrawlProject.
InternalCrawl ==
    /\ pc = "crawl"
    /\ \E treeCalls \in {TreeWalk(fs, cr.absTargetPath, patterns, flags.maxDepth,
                                  <<cr.absTargetPath>>)} :
       \E calls \in {CrawlWalk(fs, cr.absTargetPath, patterns, flags.excludeBinary,
                               <<cr.absTargetPath>>)} :
       \E c \in {CrawlerCrawlProject(fs, cr.absTargetPath, treeCalls, calls)} :
           /\ err' = c.err
           /\ result' = c.result
           /\ log' = c.calls
           /\ pc' = IF c.err = "" THEN "crawled" ELSE "failed"
    /\ UNCHANGED <<fs, rootDir, cr, patterns>>
    /\ UNCHANGED internalIdle

\* Where RunE writes the document.
InternalOutputPath ==
    AtCwd(cwd, IF flags.outputFile = "" THEN "llm.txt" ELSE flags.outputFile)

\* RunE: the content is built and written.
InternalWriteOutput ==
    /\ pc = "crawled"
    /\ \E w \in {WriteFile(fs, InternalOutputPath,
                           CrawlerBuildOutputContent(fs, cwd, result))} :
           /\ fs' = w.fs
           /\ err' = IF w.ok THEN "" ELSE "writing output file"
           /\ pc' = IF w.ok THEN "done" ELSE "failed"
    /\ UNCHANGED <<rootDir, cr, log, result, patterns>>
    /\ UNCHANGED internalIdle

InternalNext ==
    \/ InternalValidate
    \/ InternalCreateLLMIgnore
    \/ InternalLoadIgnore
    \/ InternalTarget
    \/ InternalCrawl
    \/ InternalWriteOutput

InternalSpec == InternalInit /\ [][InternalNext]_vars

\* ------------------------------------------------------ the other commands
\* The crawl and the matcher are at rest while another tool is exercised.
CrawlerAtRest ==
    /\ fs = TreeMixed
    /\ cwd = ProjectRoot
    /\ args = ""
    /\ flags = DefaultFlags
    /\ pc = "start"
    /\ runNo = 1
    /\ rootDir = ""
    /\ err = ""
    /\ ignorer = <<>>
    /\ cr = NoCrawl
    /\ todo = <<>>
    /\ includedFiles = <<>>
    /\ includedPathsForTree = {}
    /\ excludedCount = 0
    /\ includedCount = 0
    /\ log = <<>>
    /\ result = NoResult
    /\ results = <<>>
    /\ patterns = <<>>
    /\ asked = ""
    /\ answer = FALSE

\* -------------------------------------------------------- util.LimitString
\* The contents LimitString is given: lines of the letter a, up to
\* MaxContentLen bytes.
LimitContents ==
    UNION {[1..n -> {97, 10}] : n \in 0..MaxContentLen}

LimitInit ==
    /\ CrawlerAtRest
    /\ limitCall \in [s : LimitContents, maxLen : 2..MaxLimit, called : {FALSE},
                      out : {<<>>}]
    /\ editCall = NoEditCall
    /\ refactor = NoRefactor

\* util.LimitString(s, maxLen)
CallLimitString ==
    /\ ~limitCall.called
    /\ limitCall' = [limitCall EXCEPT !.called = TRUE,
                                      !.out = LimitString(limitCall.s, limitCall.maxLen)]
    /\ UNCHANGED <<editCall, refactor>>
    /\ UNCHANGED crawlVars
    /\ UNCHANGED matcherVars

LimitNext == CallLimitString

LimitSpec == LimitInit /\ [][LimitNext]_vars

\* --------------------------------------------------------- package editor
\* An Edit of each type, the fields its type does not use left empty.
Replace(original, replacement) ==
    [Type |-> "REPLACE", OriginalBlock |-> original, ReplacementBlock |-> replacement,
     ContextLine |-> "", InsertionBlock |-> "", Content |-> ""]

InsertAfter(context, insertion) ==
    [Type |-> "INSERT_AFTER", OriginalBlock |-> "", ReplacementBlock |-> "",
     ContextLine |-> context, InsertionBlock |-> insertion, Content |-> ""]

Delete(content) ==
    [Type |-> "DELETE", OriginalBlock |-> "", ReplacementBlock |-> "",
     ContextLine |-> "", InsertionBlock |-> "", Content |-> content]

\* lines[i:i+n] joined by newlines equals block; i counts from 0 as in the
\* code.
BlockAt(lines, i, block) ==
    /\ i + Len(Split(block, "\n")) <= Len(lines)
    /\ JoinNoTrail(lines, i + 1, i + Len(Split(block, "\n"))) = block

\* The body of the loop over the edits, for one edit: st holds i, result
\* and matched, line is lines[i] as it was read before the loop.  The break
\* of each case leaves the switch.
EditCase(lines, line, edit, st) ==
    IF edit.Type = "REPLACE" /\ BlockAt(lines, st.i, edit.OriginalBlock)
    THEN [i |-> st.i + Len(Split(edit.OriginalBlock, "\n")),
          result |-> st.result \o Split(edit.ReplacementBlock, "\n"),
          matched |-> TRUE]
    ELSE IF edit.Type = "INSERT_AFTER" /\ line = edit.ContextLine
    THEN [i |-> st.i + 1,
          result |-> st.result \o <<line>> \o Split(edit.InsertionBlock, "\n"),
          matched |-> TRUE]
    ELSE IF edit.Type = "DELETE" /\ BlockAt(lines, st.i, edit.Content)
    THEN [i |-> st.i + Len(Split(edit.Content, "\n")),
          result |-> st.result,
          matched |-> TRUE]
    ELSE st

\* for _, edit := range edits, from the k-th edit on.
RECURSIVE EditsLoop(_, _, _, _, _)
EditsLoop(lines, line, edits, k, st) ==
    IF k > Len(edits) THEN st
    ELSE EditsLoop(lines, line, edits, k + 1, EditCase(lines, line, edits[k], st))

\* One pass of the outer loop at the position i: the loop over the edits,
\* then the copy of the line when none matched.
EditPass(lines, edits, i, res) ==
    LET after(st) == IF st.matched THEN st
                     ELSE [i |-> i + 1, result |-> res \o <<lines[i + 1]>>,
                           matched |-> FALSE]
    IN  after(EditsLoop(lines, lines[i + 1], edits, 1,
                        [i |-> i, result |-> res, matched |-> FALSE]))

\* for i < len(lines)
RECURSIVE LinesLoop(_, _, _, _)
LinesLoop(lines, edits, i, res) ==
    IF i >= Len(lines) THEN res
    ELSE LET go(st) == LinesLoop(lines, edits, st.i, st.result)
         IN  go(EditPass(lines, edits, i, res))

\* ApplyEdits(originalContent, edits): the new content; the error is nil.
ApplyEdits(originalContent, edits) ==
    LET join(res) == JoinNoTrail(res, 1, Len(res))
    IN  join(LinesLoop(Split(originalContent, "\n"), edits, 0, <<>>))

\* The contents and the edits ApplyEdits is given.
OriginalPool == {"", "a", "a\nb", "a\nb\na", "b\nc"}

EditPool == {Replace("a", "x"), Replace("a\nb", "y"), InsertAfter("a", "b"),
             InsertAfter("b", "n"), Delete("a"), Delete("b")}

EditLists == UNION {[1..n -> EditPool] : n \in 0..MaxEdits}

EditInit ==
    /\ CrawlerAtRest
    /\ limitCall = NoLimitCall
    /\ editCall \in [originalContent : OriginalPool, edits : EditLists,
                     called : {FALSE}, newContent : {""}]
    /\ refactor = NoRefactor

\* editor.ApplyEdits(originalContent, edits)
CallApplyEdits ==
    /\ ~editCall.called
    /\ editCall' = [editCall EXCEPT
                        !.called = TRUE,
                        !.newContent = ApplyEdits(editCall.originalContent, editCall.edits)]
    /\ UNCHANGED <<limitCall, refactor>>
    /\ UNCHANGED crawlVars
    /\ UNCHANGED matcherVars

EditNext == CallApplyEdits

EditSpec == EditInit /\ [][EditNext]_vars

\* ------------------------------------------------ walker.WalkProjectFiles
\* language's extensionMap: from the lower-case extension, or the base name,
\* to the language.
extensionMap ==
    (".ts" :> "typescript") @@ (".tsx" :> "typescript") @@
    (".js" :> "javascript") @@ (".jsx" :> "javascript") @@
    (".mjs" :> "javascript") @@ (".cjs" :> "javascript") @@
    (".html" :> "html") @@ (".htm" :> "html") @@ (".css" :> "css") @@
    (".scss" :> "scss") @@ (".sass" :> "sass") @@ (".less" :> "less") @@
    (".vue" :> "vue") @@ (".svelte" :> "svelte") @@ (".py" :> "python") @@
    (".pyw" :> "python") @@ (".go" :> "go") @@ (".java" :> "java") @@
    (".kt" :> "kotlin") @@ (".kts" :> "kotlin") @@ (".scala" :> "scala") @@
    (".rs" :> "rust") @@ (".rb" :> "ruby") @@ (".php" :> "php") @@
    (".cs" :> "csharp") @@ (".fs" :> "fsharp") @@ (".swift" :> "swift") @@
    (".m" :> "objectivec") @@ (".mm" :> "objectivec") @@ (".c" :> "c") @@
    (".h" :> "c") @@ (".cpp" :> "cpp") @@ (".hpp" :> "cpp") @@
    (".cxx" :> "cpp") @@ (".hxx" :> "cpp") @@ (".cc" :> "cpp") @@
    (".hh" :> "cpp") @@ (".pl" :> "perl") @@ (".pm" :> "perl") @@
    (".lua" :> "lua") @@ (".sh" :> "shell") @@ (".bash" :> "shell") @@
    (".zsh" :> "shell") @@ (".ps1" :> "powershell") @@ (".json" :> "json") @@
    (".yaml" :> "yaml") @@ (".yml" :> "yaml") @@ (".toml" :> "toml") @@
    (".xml" :> "xml") @@ (".sql" :> "sql") @@ (".csv" :> "csv") @@
    (".md" :> "markdown") @@ (".rst" :> "rst") @@ (".tf" :> "terraform") @@
    (".tfvars" :> "terraform") @@ (".hcl" :> "hcl") @@
    (".dockerfile" :> "dockerfile") @@ ("Dockerfile" :> "dockerfile") @@
    (".r" :> "r")

\* language.Detect(filePath), "" for a file of no known language.
Detect(filePath) ==
    IF ToLower(Ext(filePath)) \in DOMAIN extensionMap
    THEN extensionMap[ToLower(Ext(filePath))]
    ELSE IF Base(filePath) \in DOMAIN extensionMap THEN extensionMap[Base(filePath)]
    ELSE ""

\* gitignore.CompileIgnoreFile(fpath): the lines of the file, split at the
\* newlines; no matcher for a file that cannot be read, which the walk
\* treats as a matcher without patterns.
CompileIgnoreFile(fsys, fpath) ==
    IF ~Exists(fsys, fpath) \/ fsys[fpath].denied \/ fsys[fpath].isDir THEN <<>>
    ELSE LinesOf(DataOf(fsys, fpath))

\* The path the walk function hands to both matchers: the absolute path,
\* with a "/" after it for a directory.
matchPathForIgnore(fsys, absPath) ==
    IF fsys[absPath].isDir THEN absPath \o "/" ELSE absPath

\* The directories the walk function leaves for their name alone.
SkippedDirNames == {"node_modules", "vendor", ".git"}

\* The dot-prefixed directories it keeps.
KeptHiddenDirNames == {".github", ".vscode"}

\* One call of the walk function without error, on absPath: what it
\* decided, what it returned to WalkDir, and for a file that passed every
\* check the arguments of the callback.
WalkProjectFn(fsys, absRepoRoot, absStartPath, gi, llm, absPath) ==
    LET relPath == Rel(absStartPath, absPath)
        isDir == fsys[absPath].isDir
        name == Base(absPath)
        lang == Detect(absPath)
        call(verdict, ret) ==
            [absPath |-> absPath, relPath |-> relPath, verdict |-> verdict, ret |-> ret,
             lang |-> IF verdict = "callback" THEN lang ELSE "",
             repoRoot |-> IF verdict = "callback" THEN absRepoRoot ELSE ""]
    IN  IF MatchesPath(gi, matchPathForIgnore(fsys, absPath))
        THEN call("gitignore", IF isDir THEN "SkipDir" ELSE "")
        ELSE IF MatchesPath(llm, matchPathForIgnore(fsys, absPath))
        THEN call("llmignore", IF isDir THEN "SkipDir" ELSE "")
        ELSE IF isDir
        THEN IF name \in SkippedDirNames THEN call("directory name", "SkipDir")
             ELSE IF name # "." /\ HasPrefix(name, ".") /\ name \notin KeptHiddenDirNames
             THEN call("hidden directory", "SkipDir")
             ELSE call("descend", "")
        ELSE IF lang = "" THEN call("unknown language", "")
        ELSE IF fsys[absPath].denied THEN call("type check failed", "")
        ELSE IF ~UtilIsLikelyTextFile(DataOf(fsys, absPath)) THEN call("binary", "")
        ELSE call("callback", "")

\* The call with the error of os.ReadDir, for a directory that was entered
\* and cannot be read: a warning, and SkipDir.
WalkProjectFnError(absStartPath, absPath) ==
    [absPath |-> absPath, relPath |-> Rel(absStartPath, absPath),
     verdict |-> "access error", ret |-> "SkipDir", lang |-> "", repoRoot |-> ""]

\* The calls of the walk function for one entry.
WalkProjectCalls(fsys, absStartPath, absPath, r) ==
    <<r>> \o (IF fsys[absPath].isDir /\ r.ret # "SkipDir" /\ fsys[absPath].denied
              THEN <<WalkProjectFnError(absStartPath, absPath)>> ELSE <<>>)

\* A repository with hidden directories, kept and not, a directory that
\* cannot be read, and files of known and unknown language.
WalkerBase ==
    ("/" :> DirEntry) @@
    ("/proj" :> DirEntry) @@
    ("/proj/.config" :> DirEntry) @@
    ("/proj/.config/notes.md" :> FileEntry(Bytes("notes\n"))) @@
    ("/proj/.git" :> DirEntry) @@
    ("/proj/.git/HEAD" :> FileEntry(Bytes("ref: refs/heads/main\n"))) @@
    ("/proj/.github" :> DirEntry) @@
    ("/proj/.github/ci.md" :> FileEntry(Bytes("ci\n"))) @@
    ("/proj/blob.go" :> FileEntry(NulBytes)) @@
    ("/proj/docs" :> DirEntry) @@
    ("/proj/docs/.cache" :> DirEntry) @@
    ("/proj/docs/.cache/tmp.md" :> FileEntry(Bytes("tmp\n"))) @@
    ("/proj/docs/guide.md" :> FileEntry(Bytes("guide\n"))) @@
    ("/proj/drafts" :> DirEntry) @@
    ("/proj/drafts/old.md" :> FileEntry(Bytes("old\n"))) @@
    ("/proj/locked" :> Denied(DirEntry)) @@
    ("/proj/logo.png" :> FileEntry(PngBytes)) @@
    ("/proj/main.go" :> FileEntry(GoSource)) @@
    ("/proj/secret.md" :> Denied(FileEntry(Bytes("secret\n"))))

\* The contents of .gitignore and of .llmignore the walk is run with, <<>>
\* for no file.
WalkerGitignores == {<<>>, Bytes("!.config/\n"), Bytes("drafts/\n")}

WalkerLLMIgnores == {<<>>, Bytes("!.cache/\n"), Bytes("guide.md\n")}

WithFile(fsys, path, data) ==
    IF data = <<>> THEN fsys ELSE (path :> FileEntry(data)) @@ fsys

WalkerTrees ==
    {WithFile(WithFile(WalkerBase, "/proj/.gitignore", g), "/proj/.llmignore", l) :
        g \in WalkerGitignores, l \in WalkerLLMIgnores}

\* The directories the walk is started at: the repository root and
\* directories inside it.
WalkerStartPaths == {"/proj", "/proj/docs", "/proj/.github"}

\* The walk has its own locals; the commands are not running.
NoWalk == [absStartPath |-> "", llmIgnorer |-> <<>>]

\* A caller (docs, refactor) compiled .gitignore of the repository root and
\* calls WalkProjectFiles(repoRoot, absStartPath, ignorer, callback).
WalkerInit ==
    /\ fs \in WalkerTrees
    /\ cwd = ProjectRoot
    /\ args = ""
    /\ flags = DefaultFlags
    /\ pc = "walker start"
    /\ runNo = 1
    /\ rootDir = ProjectRoot
    /\ err = ""
    /\ ignorer = CompileIgnoreFile(fs, Join(ProjectRoot, ".gitignore"))
    /\ cr \in [absStartPath : WalkerStartPaths, llmIgnorer : {<<>>}]
    /\ todo = <<>>
    /\ includedFiles = <<>>
    /\ includedPathsForTree = {}
    /\ excludedCount = 0
    /\ includedCount = 0
    /\ log = <<>>
    /\ result = NoResult
    /\ results = <<>>
    /\ patterns = <<>>
    /\ asked = ""
    /\ answer = FALSE
    /\ ToolsAtRest

\* WalkProjectFiles up to the call of filepath.WalkDir: .llmignore of the
\* repository root is compiled.
WalkerBegin ==
    /\ pc = "walker start"
    /\ cr' = [cr EXCEPT !.llmIgnorer = CompileIgnoreFile(fs, Join(rootDir, ".llmignore"))]
    /\ todo' = <<cr.absStartPath>>
    /\ pc' = "walker walk"
    /\ UNCHANGED <<fs, cwd, args, flags, runNo, rootDir, err, ignorer, includedFiles,
                   includedPathsForTree, excludedCount, includedCount, log, result,
                   results>>
    /\ UNCHANGED matcherVars
    /\ UNCHANGED toolVars

\* The walk function on the next entry of the walk; the callback of the
\* callers returns no error for a file it is given.
WalkerVisit ==
    /\ pc = "walker walk"
    /\ todo # <<>>
    /\ \E absPath \in {Head(todo)} :
       \E r \in {WalkProjectFn(fs, rootDir, cr.absStartPath, CompileIgnoreLines(ignorer),
                               CompileIgnoreLines(cr.llmIgnorer), absPath)} :
           /\ log' = log \o WalkProjectCalls(fs, cr.absStartPath, absPath, r)
           /\ todo' = WalkNext(fs, todo, r.ret)
    /\ UNCHANGED <<fs, cwd, args, flags, pc, runNo, rootDir, err, ignorer, cr,
                   includedFiles, includedPathsForTree, excludedCount, includedCount,
                   result, results>>
    /\ UNCHANGED matcherVars
    /\ UNCHANGED toolVars

\* filepath.WalkDir returns: the walk function returned no error.
WalkerReturn ==
    /\ pc = "walker walk"
    /\ todo = <<>>
    /\ pc' = "done"
    /\ UNCHANGED <<fs, cwd, args, flags, runNo, rootDir, err, ignorer, cr, todo,
                   includedFiles, includedPathsForTree, excludedCount, includedCount,
                   log, result, results>>
    /\ UNCHANGED matcherVars
    /\ UNCHANGED toolVars

WalkerNext == WalkerBegin \/ WalkerVisit \/ WalkerReturn

WalkerSpec == WalkerInit /\ [][WalkerNext]_vars

\* ---------------------------------------------------- the refactor command
\* strings.TrimSpace, on the white space of the model's texts.
RECURSIVE TrimSpace(_)
TrimSpace(s) ==
    IF s = "" THEN s
    ELSE IF Char(s, 1) \in {" ", "\n"} THEN TrimSpace(Tail(s))
    ELSE IF Char(s, Len(s)) \in {" ", "\n"} THEN TrimSpace(SubSeq(s, 1, Len(s) - 1))
    ELSE s

\* strings.Contains
Contains(s, substr) ==
    \E i \in 1..(Len(s) - Len(substr) + 1) : SubSeq(s, i, i + Len(substr) - 1) = substr

\* cleanLLMResponse of package refactor on a response without code fences
\* (the responses of the model carry none): the white space around it is
\* trimmed.
cleanLLMResponse(response) == TrimSpace(response)

\* FindTSConfig(startPath), the repository root being absRoot: the
\* tsconfig.json of the nearest directory from startPath upwards, "" when
\* none is found up to the root.
RECURSIVE FindTSConfig(_, _, _)
FindTSConfig(fsys, current, absRoot) ==
    IF Exists(fsys, Join(current, "tsconfig.json")) THEN Join(current, "tsconfig.json")
    ELSE IF Dir(current) = current \/ current = absRoot \/ Dir(current) = "/" THEN ""
    ELSE FindTSConfig(fsys, Dir(current), absRoot)

\* The test of runRefactor's walk function: a .ts or .tsx file that is no
\* declaration file and lies in no node_modules or .git directory.
IsTypeScriptTarget(fsys, path) ==
    /\ ~fsys[path].isDir
    /\ HasSuffix(path, ".ts") \/ HasSuffix(path, ".tsx")
    /\ ~HasSuffix(path, ".d.ts")
    /\ ~Contains(path, "/node_modules/")
    /\ ~Contains(path, "/.git/")

\* The files runRefactor's filepath.WalkDir appends, in the order of the
\* walk.
RECURSIVE ScanTypeScript(_, _)
ScanTypeScript(fsys, pending) ==
    IF pending = <<>> THEN <<>>
    ELSE (IF IsTypeScriptTarget(fsys, Head(pending)) THEN <<Head(pending)>> ELSE <<>>)
         \o ScanTypeScript(fsys, WalkNext(fsys, pending, ""))

\* The walk function returns the error of a directory that cannot be read.
ScanFails(fsys, targetPath) ==
    \E d \in DOMAIN fsys :
        /\ fsys[d].isDir /\ fsys[d].denied
        /\ d = targetPath \/ targetPath \in Ancestors(d)

\* runRefactor up to the LLM client: the error it returns, "" for none, and
\* the target files.
DetermineTargetFiles(fsys, targetPath) ==
    IF ~Exists(fsys, targetPath) THEN [err |-> "invalid target path", targetFiles |-> <<>>]
    ELSE IF fsys[targetPath].isDir
    THEN IF ScanFails(fsys, targetPath)
         THEN [err |-> "failed to scan directory", targetFiles |-> <<>>]
         ELSE [err |-> "", targetFiles |-> ScanTypeScript(fsys, <<targetPath>>)]
    ELSE IF ~(HasSuffix(targetPath, ".ts") \/ HasSuffix(targetPath, ".tsx"))
    THEN [err |-> "not a TypeScript file", targetFiles |-> <<>>]
    ELSE [err |-> "", targetFiles |-> <<targetPath>>]

\* The RefactorResult ProcessFileRefactor starts with.
RefactorResult(filePath) ==
    [FilePath |-> filePath, OriginalContent |-> "", ProposedContent |-> "",
     TypeCheckOK |-> FALSE, LLMError |-> FALSE, TypeCheckError |-> FALSE,
     NeedsConfirmation |-> TRUE]

\* ProcessFileRefactor(filePath) with the answer of the LLM, up to its
\* return or to the start of tsc in CheckTypeScriptTypes: the result so
\* far, the filesystem, and whether tsc was started.  CheckTypeScriptTypes
\* writes the proposed content over the file before it starts tsc.
ProcessUntilTsc(fsys, absRoot, filePath, llmErr, proposedCode, checkTypes) ==
    LET r0 == RefactorResult(filePath)
        returned(r) == [result |-> r, fs |-> fsys, tsc |-> FALSE]
    IN  IF fsys[filePath].denied THEN returned(r0)
        ELSE
        LET orig == StringOf(DataOf(fsys, filePath))
            proposed == TrimSpace(cleanLLMResponse(proposedCode))
            r1 == [r0 EXCEPT !.OriginalContent = orig]
            r2 == [r1 EXCEPT !.ProposedContent = proposed]
            written == WriteFile(fsys, filePath, Bytes(proposed))
        IN  IF llmErr
            THEN returned([r1 EXCEPT !.LLMError = TRUE, !.NeedsConfirmation = FALSE])
            ELSE IF \/ Len(proposed) < 10
                    \/ Contains(ToLower(proposed), "no changes needed")
                    \/ proposed = orig
            THEN returned([r1 EXCEPT !.ProposedContent = orig,
                                     !.NeedsConfirmation = FALSE, !.TypeCheckOK = TRUE])
            ELSE IF ~checkTypes THEN returned([r2 EXCEPT !.TypeCheckOK = TRUE])
            ELSE IF FindTSConfig(fsys, Dir(filePath), absRoot) = ""
            THEN returned([r2 EXCEPT !.TypeCheckOK = TRUE])
            ELSE IF ~written.ok
            THEN returned([r2 EXCEPT !.TypeCheckError = TRUE, !.NeedsConfirmation = FALSE])
            ELSE [result |-> r2, fs |-> written.fs, tsc |-> TRUE]

\* What cmd.Run of tsc can come to: no error, an exit code for type errors,
\* or tsc could not be run.
TscOutcomes == {"passed", "type errors", "not run"}

\* CheckTypeScriptTypes from the return of tsc, and ProcessFileRefactor
\* after it: the deferred function writes the original content back.
ProcessAfterTsc(fsys, r, outcome) ==
    [result |-> [r EXCEPT !.TypeCheckOK = (outcome = "passed"),
                          !.TypeCheckError = (outcome = "not run"),
                          !.NeedsConfirmation = (outcome # "not run")],
     fs |-> WriteFile(fsys, r.FilePath, Bytes(r.OriginalContent)).fs]

\* A TypeScript project, with and without a tsconfig.json.
RefactorBase ==
    ("/" :> DirEntry) @@
    ("/proj" :> DirEntry) @@
    ("/proj/README.md" :> FileEntry(Bytes("readme\n"))) @@
    ("/proj/node_modules" :> DirEntry) @@
    ("/proj/node_modules/lib.ts" :> FileEntry(Bytes("export const c = 3\n"))) @@
    ("/proj/src" :> DirEntry) @@
    ("/proj/src/app.ts" :> FileEntry(Bytes("const a = 1"))) @@
    ("/proj/src/types.d.ts" :> FileEntry(Bytes("declare const a\n"))) @@
    ("/proj/src/util.tsx" :> FileEntry(Bytes("const b = 2\n")))

RefactorTrees ==
    {RefactorBase, ("/proj/tsconfig.json" :> FileEntry(Bytes("[]\n"))) @@ RefactorBase}

RefactorTargets == {"/proj/src/app.ts", "/proj/src", "/proj/README.md", "/proj/missing"}

\* The answers of the LLM: a change, the file as it is, and words for no
\* change.
LLMResponses == {"const a: number = 1\n", "const a = 1", "No changes needed.", "ok"}

\* llmify refactor <targetPath> --prompt ... with a choice of --dry-run,
\* --apply, --force and --no-check-types, run in the repository /proj.
RefactorInit ==
    /\ fs \in RefactorTrees
    /\ cwd = ProjectRoot
    /\ args = ""
    /\ flags = DefaultFlags
    /\ pc = "refactor start"
    /\ runNo = 1
    /\ rootDir = ProjectRoot
    /\ err = ""
    /\ ignorer = <<>>
    /\ cr = NoCrawl
    /\ todo = <<>>
    /\ includedFiles = <<>>
    /\ includedPathsForTree = {}
    /\ excludedCount = 0
    /\ includedCount = 0
    /\ log = <<>>
    /\ result = NoResult
    /\ results = <<>>
    /\ patterns = <<>>
    /\ asked = ""
    /\ answer = FALSE
    /\ limitCall = NoLimitCall
    /\ editCall = NoEditCall
    /\ refactor \in [dryRun : BOOLEAN, apply : BOOLEAN, force : BOOLEAN,
                     checkTypes : BOOLEAN, targetPath : RefactorTargets,
                     targetFiles : {<<>>}, result : {<<>>}, results : {<<>>},
                     filesToConfirm : {<<>>}]

refactorIdle == <<cwd, args, flags, runNo, rootDir, ignorer, cr, todo, includedFiles,
                  includedPathsForTree, excludedCount, includedCount, log, result,
                  results, limitCall, editCall>>

\* RefactorCmd.PreRunE: --dry-run and --apply exclude each other.
RefactorPreRun ==
    /\ pc = "refactor start"
    /\ IF refactor.dryRun /\ refactor.apply
       THEN /\ err' = "--dry-run and --apply cannot be used together"
            /\ pc' = "done"
       ELSE /\ err' = err
            /\ pc' = "refactor targets"
    /\ UNCHANGED <<fs, refactor>>
    /\ UNCHANGED refactorIdle
    /\ UNCHANGED matcherVars

\* runRefactor up to the loop over the target files.
RefactorDetermineTargets ==
    /\ pc = "refactor targets"
    /\ \E t \in {DetermineTargetFiles(fs, refactor.targetPath)} :
           /\ err' = t.err
           /\ refactor' = [refactor EXCEPT !.targetFiles = t.targetFiles]
           /\ pc' = IF t.err # "" \/ t.targetFiles = <<>> THEN "done" ELSE "refactor process"
    /\ UNCHANGED fs
    /\ UNCHANGED refactorIdle
    /\ UNCHANGED matcherVars

\* One turn of the loop, for the next target file: ProcessFileRefactor with
\* the answer of the LLM, up to its return or to the start of tsc.
RefactorProcessFile ==
    /\ pc = "refactor process"
    /\ Len(refactor.results) < Len(refactor.targetFiles)
    /\ \E llmErr \in BOOLEAN :
       \E proposedCode \in (IF llmErr THEN {""} ELSE LLMResponses) :
       \E p \in {ProcessUntilTsc(fs, rootDir,
                                 refactor.targetFiles[Len(refactor.results) + 1],
                                 llmErr, proposedCode, refactor.checkTypes)} :
           /\ fs' = p.fs
           /\ IF p.tsc
              THEN /\ refactor' = [refactor EXCEPT !.result = p.result]
                   /\ pc' = "refactor tsc"
              ELSE /\ refactor' = [refactor EXCEPT !.results = Append(@, p.result)]
                   /\ pc' = pc
    /\ UNCHANGED err
    /\ UNCHANGED refactorIdle
    /\ UNCHANGED matcherVars

\* tsc returns: CheckTypeScriptTypes restores the file, and
\* ProcessFileRefactor returns the result.
RefactorTscReturns ==
    /\ pc = "refactor tsc"
    /\ \E outcome \in TscOutcomes :
       \E p \in {ProcessAfterTsc(fs, refactor.result, outcome)} :
           /\ fs' = p.fs
           /\ refactor' = [refactor EXCEPT !.result = <<>>,
                                           !.results = Append(@, p.result)]
    /\ pc' = "refactor process"
    /\ UNCHANGED err
    /\ UNCHANGED refactorIdle
    /\ UNCHANGED matcherVars

\* runRefactor after the loop: the summary, and the return of a dry run or
\* of a run without --apply.
RefactorSummarize ==
    /\ pc = "refactor process"
    /\ Len(refactor.results) = Len(refactor.targetFiles)
    /\ \E confirm \in {IF ~refactor.dryRun /\ refactor.apply
                       THEN SelectSeq(refactor.results, LAMBDA r : r.NeedsConfirmation)
                       ELSE <<>>} :
           /\ refactor' = [refactor EXCEPT !.filesToConfirm = confirm]
           /\ pc' = IF refactor.dryRun \/ ~refactor.apply \/ confirm = <<>>
                    THEN "done" ELSE "refactor apply"
    /\ UNCHANGED <<fs, err>>
    /\ UNCHANGED refactorIdle
    /\ UNCHANGED matcherVars

\* One turn of the loop over filesToConfirm: with --force a file whose type
\* check passed is written, without it the file the user confirms.
RefactorApplyChange ==
    /\ pc = "refactor apply"
    /\ \E res \in {Head(refactor.filesToConfirm)} :
       \E confirmed \in (IF refactor.force THEN {res.TypeCheckOK} ELSE BOOLEAN) :
           fs' = IF confirmed
                 THEN WriteFile(fs, res.FilePath, Bytes(res.ProposedContent)).fs
                 ELSE fs
    /\ refactor' = [refactor EXCEPT !.filesToConfirm = Tail(@)]
    /\ pc' = IF Len(refactor.filesToConfirm) = 1 THEN "done" ELSE pc
    /\ UNCHANGED err
    /\ UNCHANGED refactorIdle
    /\ UNCHANGED matcherVars

RefactorNext ==
    \/ RefactorPreRun
    \/ RefactorDetermineTargets
    \/ RefactorProcessFile
    \/ RefactorTscReturns
    \/ RefactorSummarize
    \/ RefactorApplyChange

RefactorSpec == RefactorInit /\ [][RefactorNext]_vars

\* --------------------------------------------------------------- properties
\* CrawlProject has returned its result.
Crawled == pc = "crawled"

\* The files of the result, as a set.
IncludedSet == {result.IncludedFiles[i] : i \in 1..Len(result.IncludedFiles)}

\* The lines of the rendered tree.
TreeLines == {result.FileTree[i] : i \in 1..Len(result.FileTree)}

\* The files that exist below the root directory.
FilesUnderRoot == {p \in DOMAIN fs : ~fs[p].isDir /\ HasPrefix(p, rootDir \o "/")}

\* The number of elements of a relative path.
Segments(rel) == Cardinality({i \in 1..Len(rel) : Char(rel, i) = "/"}) + 1

\* The path --path names, "" without the flag.
ScopePath == IF flags.targetPath = "" THEN "" ELSE Join(rootDir, flags.targetPath)

InScope(p) == ScopePath = "" \/ p = ScopePath \/ HasPrefix(p, ScopePath \o "/")

WithinDepth(p) == flags.maxDepth = 0 \/ Segments(Rel(rootDir, p)) <= flags.maxDepth

IgnoredByFile(p) == MatchesPath(CompileIgnoreLines(ignorer), p)

IncludedByFlag(p) == MatchesPath(CompileIgnoreLines(flags.includes), p)

\* The filesystem is the tree t, but for files the command itself wrote.
OnTree(t) ==
    /\ \A p \in DOMAIN t : p \in DOMAIN fs /\ fs[p] = t[p]
    /\ DOMAIN fs \subseteq DOMAIN t \union {"/proj/.llmignore", "/proj/llm.txt"}

\* The plain command, started in the project root.
PlainRun == flags = DefaultFlags /\ cwd = ProjectRoot /\ args = ""

\* The content of the file begins with the PNG signature 0x89 0x50 0x4E 0x47.
\* A content kept as text holds no byte 0x89.
HasPngMagic(p) ==
    /\ Len(fs[p].data.raw) >= 4
    /\ SubSeq(fs[p].data.raw, 1, 4) = <<137, 80, 78, 71>>

\* C1: a file that an ignore-file pattern matches and a --include pattern
\* matches too is in includedFiles, wherever it lies in the tree, when it is
\* inside the scope, within maxDepth and not the output file.
C1_IncludeOverridesIgnore ==
    Crawled =>
        \A p \in FilesUnderRoot :
            (/\ IncludedByFlag(p)
             /\ IgnoredByFile(p)
             /\ InScope(p)
             /\ WithinDepth(p)
             /\ p # cr.absOutputFilename
             /\ p # OutputPath)
            => Rel(rootDir, p) \in IncludedSet

\* C2: in the end-to-end project, a crawl with --include
\* node_modules/pkg/index.js has node_modules/pkg/index.js in includedFiles
\* and no other path under node_modules.
C2_IncludedFromNodeModules ==
    (/\ Crawled
     /\ OnTree(TreeE2E)
     /\ cwd = ProjectRoot
     /\ args = ""
     /\ flags = [DefaultFlags EXCEPT !.includes = <<"node_modules/pkg/index.js">>])
    => /\ "node_modules/pkg/index.js" \in IncludedSet
       /\ \A f \in IncludedSet :
              HasPrefix(f, "node_modules/") => f = "node_modules/pkg/index.js"

\* C3: ShouldIgnore goes through the whole pattern list, so that a negated
\* pattern after a positive one reverses it: with "*.log", "!important.log"
\* the path important.log is not ignored and debug.log is.
C3_LaterNegationReverses ==
    patterns = <<"*.log", "!important.log">> =>
        /\ asked = "important.log" => answer = FALSE
        /\ asked = "debug.log" => answer = TRUE

\* C4: the tree is rendered over exactly the included paths: the file
\* entries of the tree are the files of includedFiles.
C4_TreeShowsIncludedFiles ==
    Crawled =>
        {l.path : l \in {t \in TreeLines : ~t.isDir}}
            = {Join(rootDir, f) : f \in IncludedSet}

C6_EndToEndFiles ==
    (Crawled /\ runNo = 1 /\ OnTree(TreeE2E) /\ PlainRun)
    => /\ result.IncludedFiles = <<"src/a.go">>
       /\ {l.path : l \in TreeLines} = {"/proj", "/proj/src", "/proj/src/a.go"}

\* C7: in the end-to-end project the plain run has excludedCount = 3: .git
\* and node_modules count once each however many entries they hold, and
\* img.png counts once.
C7_EndToEndExcludedCount ==
    (Crawled /\ runNo = 1 /\ PlainRun /\ (OnTree(TreeE2E) \/ OnTree(TreeE2EGit)))
    => result.ExcludedCount = 3

\* C8: with maxDepth = n > 0 the depth check excludes a path it is asked
\* about exactly when the path has more than n elements, a directory over
\* the limit is pruned, with maxDepth = 0 the depth check excludes nothing,
\* and neither the file list nor the tree goes below depth n.
C8_DepthBoundary ==
    Crawled =>
        /\ \A k \in 1..Len(log) :
               /\ log[k].verdict = "depth"
                      => flags.maxDepth > 0 /\ Segments(log[k].relPath) > flags.maxDepth
               /\ (/\ flags.maxDepth > 0
                   /\ Segments(log[k].relPath) > flags.maxDepth
                   /\ log[k].verdict # "outside-path")
                      => log[k].verdict = "depth"
               /\ (log[k].verdict = "depth" /\ fs[Join(rootDir, log[k].relPath)].isDir)
                      => /\ log[k].ret = "SkipDir"
                         /\ \A m \in 1..Len(log) :
                                ~HasPrefix(log[m].relPath, log[k].relPath \o "/")
        /\ \A f \in IncludedSet : WithinDepth(Join(rootDir, f))
        /\ \A l \in TreeLines : l.path # rootDir => WithinDepth(l.path)
        /\ flags.targetPath = "" =>
               \A p \in includedPathsForTree : \E l \in TreeLines : l.path = p

\* With maxDepth = 2, a/b.go is included and a/b/c.go is excluded by the
\* depth check.
C8_Witness ==
    /\ Crawled
    /\ flags.maxDepth = 2
    /\ "a/b.go" \in IncludedSet
    /\ \E k \in 1..Len(log) : log[k].relPath = "a/b/c.go" /\ log[k].verdict = "depth"

\* C9: the file the command writes its output to is in includedFiles of no
\* crawl, the second run included, whatever --output and the working
\* directory.
C9_OutputNeverIncluded ==
    Crawled => \A f \in IncludedSet : Join(rootDir, f) # OutputPath

\* C10 as stated: with excludeBinary, a file that begins with the PNG
\* signature is in includedFiles of no crawl.
C10_PngNeverIncluded ==
    (Crawled /\ flags.excludeBinary)
    => \A f \in IncludedSet : ~HasPngMagic(Join(rootDir, f))

\* C10 amended: IsLikelyTextFile classifies a file that begins with the PNG
\* signature as binary, and with excludeBinary such a file is in
\* includedFiles only when a --include pattern matches it.
C10_PngIncludedOnlyByFlag ==
    Crawled =>
        /\ \A p \in FilesUnderRoot :
               HasPngMagic(p) => ~IsLikelyTextFile(p, DataOf(fs, p))
        /\ flags.excludeBinary =>
               \A f \in IncludedSet :
                   HasPngMagic(Join(rootDir, f)) => IncludedByFlag(Join(rootDir, f))

\* A PNG without a telling extension was met and excluded as binary.
C10_Witness ==
    /\ Crawled
    /\ flags.excludeBinary
    /\ \E k \in 1..Len(log) :
           /\ log[k].verdict = "binary"
           /\ Ext(log[k].relPath) = ""
           /\ HasPngMagic(Join(rootDir, log[k].relPath))

\* The directory p lies above the path --path names.
IsAncestorOfScope(p) == ScopePath # "" /\ HasPrefix(ScopePath, p \o "/")

\* C11: with --path set, the scope check marks a visited path as excluded
\* exactly when the path is neither inside the target nor an ancestor of it;
\* a directory that is no ancestor of the target is pruned, and an ancestor
\* is descended into and not counted as excluded.
C11_ScopeCheck ==
    (Crawled /\ flags.targetPath # "") =>
        /\ \A k \in 1..Len(log) :
               LET p == Join(rootDir, log[k].relPath)
               IN  /\ log[k].verdict = "outside-path"
                          <=> (~InScope(p) /\ ~IsAncestorOfScope(p))
                   /\ (fs[p].isDir /\ ~InScope(p) /\ ~IsAncestorOfScope(p))
                          => log[k].ret = "SkipDir"
                   /\ (fs[p].isDir /\ IsAncestorOfScope(p)) => log[k].ret = "nil"
        /\ result.ExcludedCount =
               Cardinality({k \in 1..Len(log) :
                               /\ log[k].verdict \in ExcludedVerdicts
                               /\ ~IsAncestorOfScope(Join(rootDir, log[k].relPath))})

\* The lines of a rule set, as a set.
IgnorerLines == {ignorer[i] : i \in 1..Len(ignorer)}

\* No project starts with a .llmignore, so the first run with tool-ignore
\* enabled is the one that creates it.
CreatedLLMIgnore == pc = "crawl" /\ runNo = 1 /\ ~flags.noLLMignore

ExcludedByFlag(p) == MatchesPath(CompileIgnoreLines(flags.excludes), p)

\* The entries below the root directory, files and directories.
EntriesUnderRoot == {p \in DOMAIN fs : HasPrefix(p, rootDir \o "/")}

\* The entries the walk function was called for.
Visited == {Join(rootDir, log[k].relPath) : k \in 1..Len(log)}

\* C17: a path that a --exclude pattern and a --include pattern both match
\* is included, when it is inside the scope, within maxDepth and not the
\* output file; a path that a --exclude pattern matches and no --include
\* pattern does is excluded, and nothing below it is visited when it is a
\* directory inside the scope.
C17_IncludeOverridesExclude ==
    Crawled =>
        \A p \in EntriesUnderRoot :
            /\ (/\ ExcludedByFlag(p)
                /\ IncludedByFlag(p)
                /\ InScope(p)
                /\ WithinDepth(p)
                /\ p # cr.absOutputFilename)
               => p \in includedPathsForTree
            /\ (ExcludedByFlag(p) /\ ~IncludedByFlag(p))
               => /\ p \notin includedPathsForTree
                  /\ (fs[p].isDir /\ p \in Visited /\ InScope(p))
                         => \A q \in Visited : ~HasPrefix(q, p \o "/")

\* The patterns of the matcher that end in "/", none of them negated.
OnlyDirPatterns ==
    /\ patterns # <<>>
    /\ \A i \in 1..Len(patterns) : HasSuffix(patterns[i], "/") /\ ~HasPrefix(patterns[i], "!")

\* C18: a pattern ending in "/" matches a path exactly when the path equals
\* the pattern without its trailing slash or starts with the pattern, slash
\* included: "build/" matches "build" and "build/output.txt" and does not
\* match "rebuild/output.txt".
C18_DirectoryPattern ==
    (OnlyDirPatterns /\ asked # "") =>
        answer = (\E i \in 1..Len(patterns) :
                     \/ asked \o "/" = patterns[i]
                     \/ HasPrefix(asked, patterns[i]))

\* "build/" was asked about a path below build.
C18_Witness ==
    /\ patterns = <<"build/">>
    /\ asked = "build/output.txt"
    /\ answer

\* C19: a pattern that contains "/" is matched against the whole relative
\* path only, never against a suffix of it ("b/c.go" does not match
\* "a/b/c.go"); a pattern without "/" is tried against every suffix.
C19_SlashPatternAnchored ==
    (/\ Len(patterns) = 1
     /\ asked # ""
     /\ ~HasPrefix(patterns[1], "!")
     /\ ~HasSuffix(patterns[1], "/"))
    => IF ContainsChar(patterns[1], "/")
       THEN answer = matchPattern(asked, patterns[1])
       ELSE answer = (\E i \in 1..Len(Split(asked, "/")) :
                         matchPattern(JoinFrom(Split(asked, "/"), i), patterns[1]))

\* The relative path lies below .git or node_modules of the root.
BelowFloorDir(rel) == HasPrefix(rel, ".git/") \/ HasPrefix(rel, "node_modules/")

\* C16: in every crawl the directories .git and node_modules of the root are
\* pruned outright: the walk does not descend into them and no path below
\* them is in includedFiles, whatever the ignore files hold and whether or
\* not they are read.
C16_FloorDirectoriesPruned ==
    Crawled =>
        /\ \A k \in 1..Len(log) : ~BelowFloorDir(log[k].relPath)
        /\ \A f \in IncludedSet : ~BelowFloorDir(f)

\* The directory the walk of the run starts from.
WalkRoot == IF cr.absRootDir # "" THEN cr.absRootDir ELSE cr.absTargetPath

\* The calls of the walk function for the entry p.
CallsFor(p) == {k \in 1..Len(log) : Join(WalkRoot, log[k].relPath) = p}

\* The walk met an access error on the entry p.
AccessErrorAt(p) == \E k \in CallsFor(p) : log[k].verdict = "access-error"

\* The walk went into the directory a: the function was called for it and
\* returned nil each time.
Descended(a) == CallsFor(a) # {} /\ \A k \in CallsFor(a) : log[k].ret = "nil"

\* The entries the walk can come to: those below the root of the walk whose
\* directories on the way down were all descended.
ReachableEntries ==
    {p \in DOMAIN fs :
        /\ HasPrefix(p, WalkRoot \o "/")
        /\ \A a \in Ancestors(p) : HasPrefix(a, WalkRoot \o "/") => Descended(a)}

\* CrawlProject returned an error of its walk.
WalkAborted ==
    /\ pc = "failed"
    /\ err \in {"generating file tree", "walking project directory",
                "error during directory walk"}

\* C12: an access error on one entry never aborts the crawl: CrawlProject
\* returns a result and no error of the walk, nothing below a directory that
\* could not be read is visited, and every other entry the walk can come to
\* has been given to the walk function.
C12_AccessErrorNeverAborts ==
    /\ ~WalkAborted
    /\ Crawled =>
           /\ \A p \in DOMAIN fs : \A q \in DOMAIN fs :
                  AccessErrorAt(p) /\ HasPrefix(q, p \o "/") => CallsFor(q) = {}
           /\ \A p \in ReachableEntries : CallsFor(p) # {}

\* The crawl tried to classify the file p by its content and could not open
\* it: binary files are to be excluded, no --include pattern exempts p, and
\* the walk function came as far as the classification.
ClassifiedUnreadable(p) ==
    /\ ~fs[p].isDir
    /\ fs[p].denied
    /\ ToLower(Ext(p)) \notin DefaultBinaryExtensions
    /\ flags.excludeBinary
    /\ ~IncludedByFlag(p)
    /\ \E k \in CallsFor(p) : log[k].verdict \in {"binary", "include", "classify-error"}

\* The calls of the walk function that ended in an exclusion the crawl counts.
CountedCalls == {k \in 1..Len(log) : log[k].verdict \in ExcludedVerdicts}

\* C13: a file whose content cannot be read for the classification is
\* excluded as a binary file, the crawl does not fail on it, and in the
\* result it is absent from includedFiles and counted in excludedCount, with
\* every other entry the walk can come to visited.
C13_UnreadableFileExcluded ==
    \A p \in DOMAIN fs :
        ClassifiedUnreadable(p) =>
            /\ \A k \in CallsFor(p) : log[k].verdict = "binary"
            /\ ~WalkAborted
            /\ Crawled =>
                   /\ Rel(WalkRoot, p) \notin IncludedSet
                   /\ result.ExcludedCount = Cardinality(CountedCalls)
                   /\ \A q \in ReachableEntries : CallsFor(q) # {}

\* The command line names a root directory that is missing or is not a
\* directory, or a --path that does not exist below it.
SetupInvalid ==
    \/ ~Exists(fs, ChosenRoot)
    \/ ~fs[ChosenRoot].isDir
    \/ flags.targetPath # "" /\ ~Exists(fs, Join(ChosenRoot, flags.targetPath))

\* C14: when the root directory is missing or not a directory, or the scope
\* path does not exist, the command fails before any walk and before any
\* side effect: the filesystem is as it was found (no .llmignore created, no
\* output written), the walk function was never called and there is no
\* result.
C14_SetupErrorBeforeSideEffects ==
    SetupInvalid =>
        /\ fs \in Trees
        /\ log = <<>>
        /\ result = NoResult
        /\ pc \notin {"walk", "crawled", "done"}

\* The line of the tree was written with the connector c before the name.
HasConnector(line, c) ==
    \/ HasSuffix(line.text, c \o Base(line.path))
    \/ HasSuffix(line.text, c \o Base(line.path) \o "/")

\* The lines of the tree written for entries, the line of the root not
\* among them.
EntryLines == 2..Len(result.FileTree)

\* The lines i and j were written for entries of one directory.
Siblings(i, j) == Dir(result.FileTree[i].path) = Dir(result.FileTree[j].path)

\* The entry p has to come before the entry q of the same directory:
\* a directory before a file, and within each group the name that is
\* smaller when case is ignored.
ComesBefore(p, q) ==
    \/ fs[p].isDir /\ ~fs[q].isDir
    \/ fs[p].isDir = fs[q].isDir /\ StrLess(ToLower(Base(p)), ToLower(Base(q)))

\* C20: in the rendered tree no entry has two lines, the lines of one
\* directory stand directories first and in case-insensitive alphabetical
\* order within each group, and the last line of a directory carries the
\* corner connector, every other line the tee connector.
C20_TreeOrderAndConnectors ==
    Crawled =>
        \A i \in EntryLines :
            /\ \A j \in EntryLines :
                   i < j => /\ result.FileTree[i].path # result.FileTree[j].path
                            /\ Siblings(i, j) =>
                                   ~ComesBefore(result.FileTree[j].path,
                                                result.FileTree[i].path)
            /\ IF \E j \in EntryLines : i < j /\ Siblings(i, j)
               THEN HasConnector(result.FileTree[i], TeeConnector)
               ELSE HasConnector(result.FileTree[i], CornerConnector)

\* The positions of the newlines of the content within the limit.
NewlinesWithinLimit ==
    {i \in 1..limitCall.maxLen : i <= Len(limitCall.s) /\ limitCall.s[i] = 10}

\* The bytes of the truncation marker.
TruncationMarker == Bytes("...")

\* The last newline of the content within the limit.
LastNewline == CHOOSE i \in NewlinesWithinLimit : \A j \in NewlinesWithinLimit : j <= i

\* C21: content not longer than the maximum is emitted unchanged; longer
\* content is cut at the last newline within the limit when there is one
\* (the newline itself kept or dropped, never bytes of the line after it),
\* at the limit otherwise, and the truncation marker follows.
C21_ContentLimited ==
    limitCall.called =>
        IF Len(limitCall.s) <= limitCall.maxLen
        THEN limitCall.out = limitCall.s
        ELSE IF NewlinesWithinLimit # {}
        THEN limitCall.out \in
                 {SubSeq(limitCall.s, 1, LastNewline - 1) \o TruncationMarker,
                  SubSeq(limitCall.s, 1, LastNewline) \o TruncationMarker}
        ELSE limitCall.out = SubSeq(limitCall.s, 1, limitCall.maxLen) \o TruncationMarker

\* C22: two runs of the command in succession, in the same directory with
\* the same command line, return the same includedFiles and the same tree.
C22_RerunSameResult ==
    Len(results) = 2 =>
        /\ results[1].IncludedFiles = results[2].IncludedFiles
        /\ results[1].FileTree = results[2].FileTree

\* The non-root entries the walk function was called for without an access
\* error.
VisitedEntries ==
    {p \in DOMAIN fs : p # WalkRoot /\ \E k \in CallsFor(p) : log[k].verdict # "access-error"}

\* The entries the walk function included, and those it excluded.
IncludedEntries == {p \in VisitedEntries : \E k \in CallsFor(p) : log[k].verdict = "include"}

ExcludedEntries ==
    {p \in VisitedEntries : \E k \in CallsFor(p) : log[k].verdict \notin {"include", "access-error"}}

\* The directory was pruned: the walk function returned SkipDir for it.
Pruned(d) == fs[d].isDir /\ \E k \in CallsFor(d) : log[k].ret = "SkipDir"

\* C25: after a crawl every visited non-root entry was counted once, in
\* includedCount or in excludedCount; nothing beneath a pruned directory was
\* visited or counted; and includedCount is the number of included files
\* plus the number of included directories.
C25_CountsPartitionVisited ==
    Crawled =>
        /\ IncludedEntries \intersect ExcludedEntries = {}
        /\ \A p \in VisitedEntries :
               Cardinality({k \in CallsFor(p) : log[k].verdict # "access-error"}) = 1
        /\ result.IncludedCount = Cardinality(IncludedEntries)
        /\ result.ExcludedCount = Cardinality(ExcludedEntries)
        /\ \A d \in DOMAIN fs : \A q \in DOMAIN fs :
               Pruned(d) /\ HasPrefix(q, d \o "/") => q \notin VisitedEntries
        /\ result.IncludedCount =
               Len(result.IncludedFiles)
               + Cardinality({p \in IncludedEntries : fs[p].isDir})
        /\ Len(result.IncludedFiles) <= result.IncludedCount

\* A crawl that pruned a directory with entries beneath it, excluded
\* entries, and included files and directories.
C25_Witness ==
    /\ Crawled
    /\ \E d \in DOMAIN fs : \E q \in DOMAIN fs : Pruned(d) /\ HasPrefix(q, d \o "/")
    /\ result.ExcludedCount > 1
    /\ Len(result.IncludedFiles) > 0
    /\ result.IncludedCount > Len(result.IncludedFiles)

\* C26: the walk function returns SkipDir for directories only, and after a
\* crawl every entry that lies in one directory with a visited file has been
\* visited too.
C26_PruneOnlyDirectories ==
    /\ \A k \in 1..Len(log) :
           log[k].ret = "SkipDir" => fs[Join(WalkRoot, log[k].relPath)].isDir
    /\ Crawled =>
           \A p \in DOMAIN fs : \A q \in DOMAIN fs :
               /\ ~fs[p].isDir
               /\ CallsFor(p) # {}
               /\ Dir(q) = Dir(p)
               => CallsFor(q) # {}

\* The file the command writes its document to, once it is there.
WrittenOutput(p) == p = OutputPath /\ Exists(fs, p)

\* C27: a file that lies outside the scope, deeper than maxDepth, or is the
\* output file is not in includedFiles, whether or not a --include pattern
\* matches it.
C27_IncludeKeepsScopeDepthOutput ==
    Crawled =>
        \A p \in FilesUnderRoot :
            /\ IncludedByFlag(p)
            /\ (~InScope(p) \/ ~WithinDepth(p) \/ WrittenOutput(p))
            => Rel(rootDir, p) \notin IncludedSet

\* The step of the run in which LoadIgnoreMatcher is called.
LoadIgnoreStep == pc = "load" /\ pc' = "crawl"

\* C29: LoadIgnoreMatcher leaves every file that exists as it is, .gitignore
\* and an existing .llmignore among them, creates nothing but .llmignore at
\* the root, and writes nothing at all when tool-ignore is disabled or
\* .llmignore exists.
C29_LoadIgnoreWritesOnlyNewLLMIgnore ==
    [][LoadIgnoreStep =>
           /\ \A p \in DOMAIN fs : p \in DOMAIN fs' /\ fs'[p] = fs[p]
           /\ DOMAIN fs' \subseteq DOMAIN fs \union {Join(rootDir, ".llmignore")}
           /\ (flags.noLLMignore \/ Exists(fs, Join(rootDir, ".llmignore"))) => fs' = fs]_vars

\* LoadIgnoreMatcher has run a second time, with tool-ignore enabled, on a
\* root that holds the .llmignore of the first run beside a .gitignore.
C29_Witness ==
    /\ pc = "crawl"
    /\ runNo = 2
    /\ ~flags.noLLMignore
    /\ Exists(fs, Join(rootDir, ".llmignore"))
    /\ Exists(fs, Join(rootDir, ".gitignore"))

\* ApplyEdits as the claim has it: at a position the first edit that matches
\* is applied and the rest of the list is left alone for that pass.
RECURSIVE FirstMatch(_, _, _, _)
FirstMatch(lines, edits, k, st) ==
    IF k > Len(edits) THEN st
    ELSE IF EditCase(lines, lines[st.i + 1], edits[k], st).matched
         THEN EditCase(lines, lines[st.i + 1], edits[k], st)
    ELSE FirstMatch(lines, edits, k + 1, st)

RECURSIVE OneEditPerPosition(_, _, _, _)
OneEditPerPosition(lines, edits, i, res) ==
    IF i >= Len(lines) THEN res
    ELSE LET go(st) == IF st.matched
                       THEN OneEditPerPosition(lines, edits, st.i, st.result)
                       ELSE OneEditPerPosition(lines, edits, i + 1,
                                               res \o <<lines[i + 1]>>)
         IN  go(FirstMatch(lines, edits, 1,
                           [i |-> i, result |-> res, matched |-> FALSE]))

\* C30: ApplyEdits applies at most one edit at each line position: its
\* result is that of the pass in which the first matching edit ends the
\* look through the list, and with no edits it is the original content.
C30_OneEditPerPosition ==
    editCall.called =>
        /\ \E lines \in {OneEditPerPosition(Split(editCall.originalContent, "\n"),
                                            editCall.edits, 0, <<>>)} :
               editCall.newContent = JoinNoTrail(lines, 1, Len(lines))
        /\ editCall.edits = <<>> => editCall.newContent = editCall.originalContent

\* ---- C23, C28: WalkProjectFiles
\* The calls of the walk function that handed a file to the callback.
CallbackCalls == {i \in 1..Len(log) : log[i].verdict = "callback"}

\* The dot-prefixed directories outside the allow-list the walk came to.
HiddenDirsReached ==
    {d \in DOMAIN fs :
        /\ fs[d].isDir
        /\ HasPrefix(Base(d), ".")
        /\ Base(d) \notin KeptHiddenDirNames
        /\ \E i \in 1..Len(log) : log[i].absPath = d}

\* A rule of .gitignore or .llmignore re-includes the directory: a negated
\* pattern matches it, and neither file ignores it.
ReIncluded(d) ==
    LET gi == CompileIgnoreLines(ignorer)
        llm == CompileIgnoreLines(cr.llmIgnorer)
        negated(m) == \E i \in 1..Len(m) :
                          m[i].negate /\ PatternMatches(m[i], SplitPath(d \o "/"))
    IN  /\ negated(gi) \/ negated(llm)
        /\ ~MatchesPath(gi, d \o "/")
        /\ ~MatchesPath(llm, d \o "/")

\* C23: when the walk is over, no file beneath a hidden directory outside
\* the allow-list was handed to the callback, unless a rule re-includes the
\* directory, and then the walk went into it.
C23_HiddenDirectoriesPruned ==
    pc = "done" =>
        \A d \in HiddenDirsReached :
            IF ReIncluded(d)
            THEN \E i \in 1..Len(log) : Dir(log[i].absPath) = d
            ELSE \A i \in CallbackCalls : d \notin Ancestors(log[i].absPath)

\* C28: the repository root and the relative path the callback is given,
\* joined, are the path of the file the walk function was called for.
C28_CallbackPathDenotesVisitedFile ==
    \A i \in CallbackCalls : Join(log[i].repoRoot, log[i].relPath) = log[i].absPath

\* ---- C24: refactor --dry-run
\* C24: in a run with --dry-run no step changes the content of a target
\* file: the content on disk is at every point of the run what it was
\* before the run.
C24_DryRunLeavesTargetFiles ==
    [][refactor.dryRun =>
           \A i \in 1..Len(refactor.targetFiles) :
               fs'[refactor.targetFiles[i]] = fs[refactor.targetFiles[i]]]_vars

====
